---- MODULE Spec2Model ----
(***************************************************************************)
(* Model of the CV generator (cv-generator-gcp): request key normalisation *)
(* and schema validation (utils/validation.py, models/schema.py) and the   *)
(* rendering-context policies (main.py: prepare_template_context,          *)
(* anonymize_cv_data).                                                     *)
(*                                                                         *)
(* JSON values are tagged pairs <<tag, payload>>:                          *)
(*   <<"str", chars>>   a string, as the sequence of its characters        *)
(*   <<"int", n>>  <<"bool", b>>  <<"null", 0>>                            *)
(*   <<"list", elems>>  a list, as the sequence of its elements            *)
(*   <<"dict", items>>  a mapping, as the sequence of its <<key, value>>   *)
(*                      pairs in insertion order (Python dict order)       *)
(***************************************************************************)
EXTENDS Integers, Sequences, FiniteSets, TLC

VARIABLES
    request,      \* the value handed to the Validation methods
    pc,           \* which call has been made on it
    result,       \* outcome of validate_request: [kind, value]
    transformed,  \* outcome of _transform_request_keys(request)
    transformed2, \* outcome of _transform_request_keys(transformed)
    heap,         \* the mutable objects (dicts and lists), by address
    req_body,     \* the caller's record: a reference into heap
    section_order,      \* argument of prepare_template_context
    section_visibility, \* argument of prepare_template_context
    is_anonymized,      \* argument of prepare_template_context
    context,      \* outcome of prepare_template_context / anonymize_cv_data
    record,       \* the value handed to a HireableCVAdapter method
    converted,    \* outcome of the adapter method called on record
    restored,     \* outcome of parser_to_generator on the converted record
    http,         \* the HTTP request a handler receives
    environ,      \* the authentication switches of os.environ
    parse_result, \* what client.parse_cv answered, if it was called
    calls,        \* the calls the handler made on its collaborators, in order
    response,     \* the handler's answer: [status, body] or an exception
    output_format,    \* the output format the handler settled on
    template_context, \* the context the handler handed to the renderer
    blob,         \* the name the handler uploaded the document under
    file,         \* the file handed to docx_to_pdf: name, size, position, closed
    max_retries,  \* argument of docx_to_pdf
    retry_count,  \* local of docx_to_pdf
    last_error,   \* local of docx_to_pdf
    posts,        \* the POST attempts of docx_to_pdf, in order
    pdf_response, \* outcome of docx_to_pdf
    clock,        \* datetime.now(), in seconds
    served        \* the requests generate_cv has served, with their outputs

validationVars == <<result, transformed, transformed2>>
contextVars ==
    <<heap, req_body, section_order, section_visibility, is_anonymized, context>>
adapterVars == <<record, converted, restored>>
handlerVars ==
    <<http, environ, parse_result, calls, response, output_format,
      template_context, blob>>
clientVars == <<file, max_retries, retry_count, last_error, posts, pdf_response>>
storageVars == <<clock, served>>
vars ==
    <<request, pc, validationVars, contextVars, adapterVars, handlerVars,
      clientVars, storageVars>>

-----------------------------------------------------------------------------
(* JSON values *)

JStr(s) == <<"str", s>>
JInt(n) == <<"int", n>>
JBool(b) == <<"bool", b>>
JNull == <<"null", 0>>
JList(elems) == <<"list", elems>>
JDict(items) == <<"dict", items>>

IsStr(v) == v[1] = "str"
IsInt(v) == v[1] = "int"
IsBool(v) == v[1] = "bool"
IsList(v) == v[1] = "list"
IsDict(v) == v[1] = "dict"

\* outcome of a call: a returned value or a raised exception
Return(v) == <<"return", v>>
Raise(e) == <<"raise", e>>
Returned(o) == o[1] = "return"
Raised(o) == o[1] = "raise"
NoOutcome == <<"none", 0>>

\* d: the items of a mapping
Keys(d) == {d[i][1] : i \in 1..Len(d)}
HasKey(d, k) == \E i \in 1..Len(d) : d[i][1] = k
Get(d, k) == d[CHOOSE i \in 1..Len(d) : d[i][1] = k][2]

\* d[k] = v on a Python dict: an existing key keeps its position
DictSet(d, k, v) ==
    IF HasKey(d, k)
    THEN [i \in 1..Len(d) |-> IF d[i][1] = k THEN <<k, v>> ELSE d[i]]
    ELSE Append(d, <<k, v>>)

\* text.lower(), over the letters the model's strings use
LowerChar(c) ==
    CASE c = "P" -> "p" [] c = "D" -> "d" [] c = "F" -> "f"
      [] c = "T" -> "t" [] c = "N" -> "n" [] c = "O" -> "o"
      [] c = "J" -> "j" [] c = "Y" -> "y" [] c = "L" -> "l"
      [] c = "I" -> "i" [] c = "G" -> "g" [] c = "H" -> "h"
      [] c = "B" -> "b" [] c = "C" -> "c" [] c = "X" -> "x"
      [] OTHER -> c
Lower(s) == [i \in 1..Len(s) |-> LowerChar(s[i])]

-----------------------------------------------------------------------------
(* utils/validation.py: Validation._transform_request_keys *)

key_mapping ==
    << <<"outputFormat", "output_format">>,
       <<"sectionOrder", "section_order">>,
       <<"sectionVisibility", "section_visibility">>,
       <<"isAnonymized", "is_anonymized">>,
       <<"recruiterProfile", "recruiter_profile">>,
       <<"firstName", "first_name">>,
       <<"lastName", "last_name">>,
       <<"profileStatement", "profile_statement">>,
       <<"endDate", "end_date">>,
       <<"startDate", "start_date">>,
       <<"additionalDetails", "additional_details">>,
       <<"professionalMemberships", "professional_memberships">>,
       <<"earlierCareer", "earlier_career">> >>

\* mutant: the table also renames the snake_case spelling back
MutNewKey(key) ==
    IF HasKey(key_mapping, key) THEN Get(key_mapping, key)
    ELSE IF \E i \in 1..Len(key_mapping) : key_mapping[i][2] = key
    THEN key_mapping[CHOOSE i \in 1..Len(key_mapping) : key_mapping[i][2] = key][1]
    ELSE key

\* key_mapping.get(key, key)
NewKey(key) == IF HasKey(key_mapping, key) THEN Get(key_mapping, key) ELSE key

\* all(isinstance(item, dict) for item in value)
AllDicts(elems) == \A i \in 1..Len(elems) : IsDict(elems[i])

RECURSIVE TransformItems(_, _, _)
RECURSIVE TransformValue(_)

\* the loop over request.items(), from item i on, into `acc`
TransformItems(items, i, acc) ==
    IF i > Len(items) THEN acc
    ELSE TransformItems(items, i + 1,
            DictSet(acc, NewKey(items[i][1]), TransformValue(items[i][2])))

\* mutant: the mappings of any list are renamed, the other elements kept
MutTransformValue(value) ==
    IF IsDict(value) THEN JDict(TransformItems(value[2], 1, <<>>))
    ELSE IF IsList(value)
    THEN JList([j \in 1..Len(value[2]) |->
                 IF IsDict(value[2][j])
                 THEN JDict(TransformItems(value[2][j][2], 1, <<>>))
                 ELSE value[2][j]])
    ELSE value

\* the value stored under new_key (the three branches of the loop body)
TransformValue(value) ==
    IF IsDict(value) THEN JDict(TransformItems(value[2], 1, <<>>))
    ELSE IF IsList(value) /\ AllDicts(value[2])
    THEN JList([j \in 1..Len(value[2]) |->
                 JDict(TransformItems(value[2][j][2], 1, <<>>))])
    ELSE value

\* request.items() raises AttributeError on anything but a mapping
transform_request_keys(req) ==
    IF IsDict(req) THEN Return(JDict(TransformItems(req[2], 1, <<>>)))
    ELSE Raise("AttributeError")

-----------------------------------------------------------------------------
(* models/schema.py: the pydantic models.  A field is                       *)
(* <<name, type, optional>>; optional fields are Optional[T] with a default *)

TStr == <<"str">>
TBool == <<"bool">>
TOutputFormat == <<"pattern">>
TList(t) == <<"list", t>>
TModel(name) == <<"model", name>>

Req(name, type) == <<name, type, FALSE>>
Opt(name, type) == <<name, type, TRUE>>

RecruiterProfile ==
    << Opt("first_name", TStr), Opt("last_name", TStr), Opt("email", TStr),
       Opt("phone", TStr), Opt("agency_name", TStr), Opt("agency_logo", TStr),
       Opt("website", TStr) >>

Experience ==
    << Req("role", TStr), Req("company", TStr), Req("start_date", TStr),
       Opt("end_date", TStr), Opt("current", TBool), Opt("description", TStr),
       Opt("achievements", TList(TStr)) >>

Education ==
    << Req("institution", TStr), Req("degree", TStr), Opt("field", TStr),
       Opt("start_date", TStr), Opt("end_date", TStr), Opt("grade", TStr),
       Opt("description", TStr) >>

Certification ==
    << Req("name", TStr), Opt("issuer", TStr), Opt("date", TStr),
       Opt("description", TStr) >>

Achievement ==
    << Req("title", TStr), Opt("description", TStr), Opt("date", TStr) >>

Language ==
    << Req("language", TStr), Opt("proficiency", TStr) >>

ProfessionalMembership ==
    << Req("organization", TStr), Opt("role", TStr), Opt("start_date", TStr),
       Opt("end_date", TStr) >>

EarlierCareer ==
    << Req("role", TStr), Opt("company", TStr), Opt("period", TStr),
       Opt("description", TStr) >>

Publication ==
    << Req("title", TStr), Opt("publisher", TStr), Opt("date", TStr),
       Opt("url", TStr), Opt("description", TStr) >>

\* mutant: the two names are optional
MutCVData ==
    << Opt("first_name", TStr), Opt("surname", TStr), Opt("email", TStr),
       Opt("experience", TList(TModel("Experience"))) >>

CVData ==
    << Req("first_name", TStr), Req("surname", TStr), Opt("email", TStr),
       Opt("phone", TStr), Opt("address", TStr), Opt("linkedin", TStr),
       Opt("website", TStr), Opt("profile_statement", TStr),
       Opt("experience", TList(TModel("Experience"))),
       Opt("education", TList(TModel("Education"))),
       Opt("skills", TList(TStr)),
       Opt("certifications", TList(TModel("Certification"))),
       Opt("achievements", TList(TModel("Achievement"))),
       Opt("languages", TList(TModel("Language"))),
       Opt("professional_memberships", TList(TModel("ProfessionalMembership"))),
       Opt("earlier_career", TList(TModel("EarlierCareer"))),
       Opt("publications", TList(TModel("Publication"))),
       Opt("additional_details", TList(TStr)) >>

SectionVisibility ==
    << Opt("personal_info", TBool), Opt("profile_statement", TBool),
       Opt("skills", TBool), Opt("experience", TBool), Opt("education", TBool),
       Opt("certifications", TBool), Opt("achievements", TBool),
       Opt("languages", TBool), Opt("professional_memberships", TBool),
       Opt("earlier_career", TBool), Opt("publications", TBool),
       Opt("additional_details", TBool) >>

CVGenerationRequest ==
    << Opt("template", TStr), Opt("output_format", TOutputFormat),
       Opt("section_order", TList(TStr)),
       Opt("section_visibility", TModel("SectionVisibility")),
       Opt("is_anonymized", TBool),
       Opt("recruiter_profile", TModel("RecruiterProfile")),
       Req("data", TModel("CVData")) >>

Fields(name) ==
    CASE name = "RecruiterProfile" -> RecruiterProfile
      [] name = "Experience" -> Experience
      [] name = "Education" -> Education
      [] name = "Certification" -> Certification
      [] name = "Achievement" -> Achievement
      [] name = "Language" -> Language
      [] name = "ProfessionalMembership" -> ProfessionalMembership
      [] name = "EarlierCareer" -> EarlierCareer
      [] name = "Publication" -> Publication
      [] name = "CVData" -> CVData
      [] name = "SectionVisibility" -> SectionVisibility
      [] name = "CVGenerationRequest" -> CVGenerationRequest

\* Field(None, pattern="^(doc|docx|pdf)$"): the whole string is one of the three
OutputFormats == {<<"d", "o", "c">>, <<"d", "o", "c", "x">>, <<"p", "d", "f">>}
\* mutant: the pattern without its end anchor
MutMatchesPattern(s) ==
    \E n \in 0..Len(s) : SubSeq(s, 1, n) \in OutputFormats
MatchesPattern(s) == s \in OutputFormats

\* the strings pydantic's bool validator accepts (after lower-casing)
BoolStrings ==
    {<<"0">>, <<"o", "f", "f">>, <<"f">>, <<"f", "a", "l", "s", "e">>, <<"n">>,
     <<"n", "o">>, <<"1">>, <<"o", "n">>, <<"t">>, <<"t", "r", "u", "e">>,
     <<"y">>, <<"y", "e", "s">>}

\* pydantic's bool in lax mode: a bool, the ints 0 and 1, or one of BoolStrings
ValidBool(v) ==
    \/ IsBool(v)
    \/ IsInt(v) /\ v[2] \in {0, 1}
    \/ IsStr(v) /\ Lower(v[2]) \in BoolStrings

RECURSIVE ValidType(_, _)

\* mutant: a closed schema (extra = "forbid")
MutValidModel(name, v) ==
    /\ IsDict(v)
    /\ \A k \in Keys(v[2]) : \E i \in 1..Len(Fields(name)) : Fields(name)[i][1] = k
    /\ \A i \in 1..Len(Fields(name)) :
          LET f == Fields(name)[i] IN
          IF HasKey(v[2], f[1])
          THEN \/ f[3] /\ Get(v[2], f[1]) = JNull
               \/ ValidType(f[2], Get(v[2], f[1]))
          ELSE f[3]

\* a model accepts a mapping; undeclared keys are ignored (pydantic's default
\* extra = "ignore"); a present field must fit its type, None only if Optional;
\* an absent field must have a default
ValidModel(name, v) ==
    /\ IsDict(v)
    /\ \A i \in 1..Len(Fields(name)) :
          LET f == Fields(name)[i] IN
          IF HasKey(v[2], f[1])
          THEN \/ f[3] /\ Get(v[2], f[1]) = JNull
               \/ ValidType(f[2], Get(v[2], f[1]))
          ELSE f[3]

\* mutant: only the first element of a list is validated
MutValidType(t, v) ==
    CASE t[1] = "str" -> IsStr(v)
      [] t[1] = "bool" -> ValidBool(v)
      [] t[1] = "pattern" -> IsStr(v) /\ MatchesPattern(v[2])
      [] t[1] = "list" -> IsList(v) /\ (Len(v[2]) > 0 => ValidType(t[2], v[2][1]))
      [] t[1] = "model" -> ValidModel(t[2], v)

ValidType(t, v) ==
    CASE t[1] = "str" -> IsStr(v)
      [] t[1] = "bool" -> ValidBool(v)
      [] t[1] = "pattern" -> IsStr(v) /\ MatchesPattern(v[2])
      [] t[1] = "list" -> IsList(v) /\ \A i \in 1..Len(v[2]) : ValidType(t[2], v[2][i])
      [] t[1] = "model" -> ValidModel(t[2], v)

\* CVGenerationRequest.model_validate(obj): TRUE iff no ValidationError
model_validate(obj) == ValidModel("CVGenerationRequest", obj)

-----------------------------------------------------------------------------
(* utils/validation.py: Validation.validate_request *)

\* the handler of `except Exception`: log and return False
CatchException(e) == Return(FALSE)

validate_request(req) ==
    LET request_copy == transform_request_keys(req) IN
    IF Raised(request_copy) THEN CatchException(request_copy[2])
    ELSE IF model_validate(request_copy[2]) THEN Return(TRUE)
    ELSE Return(FALSE)

-----------------------------------------------------------------------------
(* Python objects: heap[a] is a dict <<"dict", items>> or a list            *)
(* <<"list", elems>> whose item values and elements are cells: a scalar     *)
(* JSON value or a reference <<"ref", a>> to another object                 *)

Ref(a) == <<"ref", a>>
IsRef(c) == c[1] = "ref"
IsContainer(v) == IsDict(v) \/ IsList(v)

RECURSIVE Store(_, _)
RECURSIVE StoreAll(_, _, _, _)

\* the objects of value v, built on heap h: <<new heap, cell of v>>
Store(h, v) ==
    IF ~IsContainer(v) THEN <<h, v>>
    ELSE LET r == StoreAll(h, v, 1, <<>>) IN
         <<Append(r[1], <<v[1], r[2]>>), Ref(Len(r[1]) + 1)>>

StoreAll(h, v, i, acc) ==
    IF i > Len(v[2]) THEN <<h, acc>>
    ELSE LET r == Store(h, IF IsDict(v) THEN v[2][i][2] ELSE v[2][i]) IN
         StoreAll(r[1], v, i + 1,
                  Append(acc, IF IsDict(v) THEN <<v[2][i][1], r[2]>> ELSE r[2]))

\* the value a cell stands for
RECURSIVE Deref(_, _)
Deref(h, c) ==
    IF ~IsRef(c) THEN c
    ELSE LET o == h[c[2]] IN
         IF IsDict(o)
         THEN JDict([i \in 1..Len(o[2]) |-> <<o[2][i][1], Deref(h, o[2][i][2])>>])
         ELSE JList([i \in 1..Len(o[2]) |-> Deref(h, o[2][i])])

\* dict.copy(): a new dict that holds the same cells
ShallowCopy(h, c) == <<Append(h, h[c[2]]), Ref(Len(h) + 1)>>

\* mutant: a copy of the outer dict only
MutDeepcopy(h, c) == ShallowCopy(h, c)

\* copy.deepcopy(data): new objects all the way down
deepcopy(h, c) == Store(h, Deref(h, c))

\* obj[k] = cell, on the dict at address a
SetItem(h, a, k, cell) == [h EXCEPT ![a] = JDict(DictSet(h[a][2], k, cell))]

\* bool(x)
Truthy(h, c) ==
    CASE IsStr(c) -> Len(c[2]) > 0
      [] IsInt(c) -> c[2] # 0
      [] IsBool(c) -> c[2]
      [] IsRef(c) -> Len(h[c[2]][2]) > 0
      [] OTHER -> FALSE

-----------------------------------------------------------------------------
(* main.py: anonymize_cv_data *)

sCandidateEmail ==
    <<"c", "a", "n", "d", "i", "d", "a", "t", "e", "@", "e", "x", "a", "m", "p",
      "l", "e", ".", "c", "o", "m">>
sCandidatePhone ==
    <<"+", "4", "4", " ", "X", "X", "X", " ", "X", "X", "X", " ", "X", "X", "X", "X">>
sCandidateAddress ==
    <<"U", "n", "i", "t", "e", "d", " ", "K", "i", "n", "g", "d", "o", "m">>
sCandidateLinkedin ==
    <<"l", "i", "n", "k", "e", "d", "i", "n", ".", "c", "o", "m", "/", "i", "n",
      "/", "c", "a", "n", "d", "i", "d", "a", "t", "e">>

\* name[0] if name else default; a non-empty name that is no string cannot be
\* subscripted (the names of the model's records are scalars)
Initial(h, name, default) ==
    IF ~Truthy(h, name) THEN Return(default)
    ELSE IF IsStr(name) THEN Return(name[2][1])
    ELSE Raise("TypeError")

\* the guard of the name replacement
NamesPresent(items) == HasKey(items, "firstName") /\ HasKey(items, "surname")

\* "Replace name with initials", on the dict at address p
AnonymizeNames(h, p) ==
    IF ~NamesPresent(h[p][2]) THEN Return(h)
    ELSE LET first_initial == Initial(h, Get(h[p][2], "firstName"), "A")
             surname_initial == Initial(h, Get(h[p][2], "surname"), "B") IN
         IF Raised(first_initial) THEN first_initial
         ELSE IF Raised(surname_initial) THEN surname_initial
         ELSE Return(SetItem(SetItem(h, p, "firstName", JStr(<<first_initial[2], ".">>)),
                             p, "surname", JStr(<<surname_initial[2], ".">>)))

\* mutant: the key is set whether or not it is present
MutReplace(h, p, key, literal) == SetItem(h, p, key, JStr(literal))

\* if key in personal_data: personal_data[key] = literal
Replace(h, p, key, literal) ==
    IF HasKey(h[p][2], key) THEN SetItem(h, p, key, JStr(literal)) ELSE h

\* mutant: linkedin is left as it is
MutAnonymizeContact(h, p) ==
    Replace(Replace(Replace(h, p, "email", sCandidateEmail),
                    p, "phone", sCandidatePhone),
            p, "address", sCandidateAddress)

\* "Anonymize contact information" and "other personal identifiers"
AnonymizeContact(h, p) ==
    Replace(Replace(Replace(Replace(h, p, "email", sCandidateEmail),
                            p, "phone", sCandidatePhone),
                    p, "address", sCandidateAddress),
            p, "linkedin", sCandidateLinkedin)

\* <<heap after the call, outcome>>; data is a reference to a dict
anonymize_cv_data(h, data) ==
    LET cp == deepcopy(h, data)
        h1 == cp[1]
        anonymized == cp[2] IN
    IF ~HasKey(h1[anonymized[2]][2], "data") THEN <<h1, Return(anonymized)>>
    ELSE LET personal_data == Get(h1[anonymized[2]][2], "data") IN
         \* 'firstName' in None raises; the model's data is a dict or None
         IF ~IsRef(personal_data) THEN <<h1, Raise("TypeError")>>
         ELSE LET named == AnonymizeNames(h1, personal_data[2]) IN
              IF Raised(named) THEN <<h1, named>>
              ELSE <<SetItem(AnonymizeContact(named[2], personal_data[2]),
                             anonymized[2], "data", personal_data),
                     Return(anonymized)>>

-----------------------------------------------------------------------------
(* main.py: prepare_template_context *)

\* if option: context[key] = option
AddOption(h, ctx, key, option) ==
    IF Truthy(h, option) THEN SetItem(h, ctx[2], key, option) ELSE h

\* <<heap after the call, outcome>>; body is a reference to a dict
prepare_template_context(h, body, order, visibility, anonymize) ==
    LET cp == ShallowCopy(h, body)
        ctx == cp[2]
        h2 == AddOption(AddOption(cp[1], ctx, "sectionOrder", order),
                        ctx, "sectionVisibility", visibility)
        an == IF anonymize THEN anonymize_cv_data(h2, ctx) ELSE <<h2, Return(ctx)>> IN
    IF Raised(an[2]) THEN an
    ELSE IF HasKey(an[1][body[2]][2], "recruiterProfile")
    THEN <<SetItem(an[1], an[2][2][2], "recruiterProfile",
                   Get(an[1][body[2]][2], "recruiterProfile")),
           an[2]>>
    ELSE an

-----------------------------------------------------------------------------
(* The requests the calls are made on *)

MaxItems == 2   \* longest experience list

sJohn == <<"J", "o">>
sDoe == <<"D", "o", "e">>
sAcme == <<"a">>
sEmpty == <<>>
sPdf == <<"p", "d", "f">>
sDocx == <<"d", "o", "c", "x">>
sDoc == <<"d", "o", "c">>
sTxt == <<"t", "x", "t">>

\* the item sequences that give each key of ks, in order, no value or one of
\* its values; ks is a sequence of <<key, set of values>>
RECURSIVE DictsOver(_)
DictsOver(ks) ==
    IF Len(ks) = 0 THEN {<<>>}
    ELSE LET rest == DictsOver(Tail(ks)) IN
         rest \cup {<< <<ks[1][1], v>> >> \o r : v \in ks[1][2], r \in rest}

RECURSIVE SeqsOfLen(_, _)
SeqsOfLen(S, n) ==
    IF n = 0 THEN {<<>>}
    ELSE {Append(q, x) : q \in SeqsOfLen(S, n - 1), x \in S}
SeqsUpTo(S, n) == UNION {SeqsOfLen(S, k) : k \in 0..n}

GoodData == JDict(<< <<"firstName", JStr(sJohn)>>, <<"surname", JStr(sDoe)>> >>)
NoSurname == JDict(<< <<"firstName", JStr(sJohn)>> >>)

\* a list whose elements are a scalar and a mapping with a renamable key
MixedList == JList(<< JStr(sAcme), JDict(<< <<"firstName", JStr(sJohn)>> >>) >>)

\* requests that are no mapping, or whose data is none
ReqShapes ==
    {JNull, JStr(sJohn), JInt(1), JList(<<>>), JDict(<<>>)}
    \cup {JDict(<< <<"data", d>> >>) :
            d \in {JNull, JList(<<>>), JStr(sJohn), JDict(<<>>)}}

\* the two names of data, in either spelling and order, and an undeclared key
NameItems ==
    DictsOver(<< <<"firstName", {JStr(sJohn), JStr(sEmpty), JInt(1), JNull}>>,
                 <<"first_name", {JStr(sDoe), JInt(1)}>>,
                 <<"surname", {JStr(sDoe), JStr(sEmpty), JNull}>>,
                 <<"nickname", {JInt(1)}>> >>)
    \cup
    DictsOver(<< <<"surname", {JStr(sDoe), JStr(sEmpty)}>>,
                 <<"first_name", {JStr(sDoe), JInt(1)}>>,
                 <<"firstName", {JStr(sJohn), JStr(sEmpty), JInt(1)}>> >>)
ReqNames == {JDict(<< <<"data", JDict(d)>> >>) : d \in NameItems}

\* experience items: each required key present or not, an undeclared key, the
\* snake_case spelling, an ill-typed role, and an item that is no mapping
ExpItems ==
    {JDict(d) : d \in DictsOver(<< <<"role", {JStr(sAcme)}>>,
                                   <<"company", {JStr(sAcme)}>>,
                                   <<"startDate", {JStr(sAcme)}>>,
                                   <<"note", {JInt(1)}>> >>)}
    \cup {JDict(<< <<"role", JStr(sAcme)>>, <<"company", JStr(sAcme)>>,
                   <<"start_date", JStr(sAcme)>> >>),
          JDict(<< <<"role", JInt(1)>>, <<"company", JStr(sAcme)>>,
                   <<"startDate", JStr(sAcme)>> >>),
          JStr(sAcme)}
ReqExperience ==
    {JDict(<< <<"data", JDict(<< <<"firstName", JStr(sJohn)>>,
                                 <<"surname", JStr(sDoe)>>,
                                 <<"experience", JList(l)>> >>)>> >>) :
        l \in SeqsUpTo(ExpItems, MaxItems)}

\* output formats, in either spelling and order
FormatVals ==
    {JStr(sDoc), JStr(sDocx), JStr(sPdf), JStr(sTxt), JStr(<<"P", "D", "F">>),
     JStr(sEmpty), JStr(<<"p", "d", "f", "x">>), JInt(1), JNull,
     JList(<<JStr(sPdf)>>)}
FormatItems ==
    DictsOver(<< <<"outputFormat", FormatVals>>,
                 <<"output_format", {JStr(sPdf), JStr(sTxt)}>>,
                 <<"data", {GoodData, NoSurname}>>,
                 <<"traceId", {JInt(1)}>> >>)
    \cup
    DictsOver(<< <<"output_format", {JStr(sPdf), JStr(sTxt)}>>,
                 <<"outputFormat", FormatVals>>,
                 <<"data", {GoodData}>> >>)
ReqFormats == {JDict(d) : d \in FormatItems}

\* the other options of a request
OptionItems ==
    DictsOver(<<
        <<"template", {JStr(sAcme)}>>,
        <<"sectionOrder", {JList(<<JStr(sAcme), JStr(sDoe)>>), MixedList,
                           JList(<<JDict(<< <<"firstName", JStr(sJohn)>> >>)>>)}>>,
        <<"sectionVisibility",
            {JDict(<< <<"experience", JBool(FALSE)>> >>),
             JDict(<< <<"profileStatement", JBool(FALSE)>>,
                      <<"skills", JStr(<<"N", "o">>)>> >>),
             JDict(<< <<"skills", JStr(sJohn)>> >>),
             JBool(TRUE)}>>,
        <<"isAnonymized", {JBool(TRUE), JInt(1), JInt(2), JStr(<<"Y", "E", "S">>)}>>,
        <<"recruiterProfile",
            {JDict(<< <<"firstName", JStr(sJohn)>>, <<"lastName", JStr(sDoe)>>,
                      <<"agencyName", JStr(sAcme)>> >>),
             JDict(<< <<"first_name", JInt(1)>> >>)}>>,
        <<"data", {GoodData}>> >>)
ReqOptions == {JDict(d) : d \in OptionItems}

\* the other fields of data
DataItems ==
    DictsOver(<<
        <<"firstName", {JStr(sJohn)}>>,
        <<"surname", {JStr(sDoe)}>>,
        <<"email", {JStr(sAcme), JInt(1)}>>,
        <<"profileStatement", {JStr(sAcme)}>>,
        <<"skills", {JList(<<JStr(sAcme), JStr(sDoe)>>), MixedList}>>,
        <<"education",
            {JList(<<JDict(<< <<"institution", JStr(sAcme)>>,
                              <<"degree", JStr(sAcme)>>,
                              <<"startDate", JStr(sAcme)>>,
                              <<"endDate", JNull>> >>)>>),
             JList(<<JDict(<< <<"institution", JStr(sAcme)>>,
                              <<"endDate", JStr(sAcme)>> >>)>>)}>>,
        <<"professionalMemberships",
            {JList(<<JDict(<< <<"organization", JStr(sAcme)>>,
                              <<"startDate", JStr(sAcme)>>,
                              <<"memberId", JInt(1)>> >>)>>)}>>,
        <<"additionalDetails", {JList(<<JStr(sAcme)>>)}>>,
        <<"meta", {JDict(<< <<"firstName", MixedList>>,
                            <<"first_name", JNull>> >>)}>> >>)
ReqData == {JDict(<< <<"data", JDict(d)>>, <<"clientVersion", JInt(1)>> >>) : d \in DataItems}

Requests ==
    ReqShapes \cup ReqNames \cup ReqExperience \cup ReqFormats
    \cup ReqOptions \cup ReqData

-----------------------------------------------------------------------------
(* The calls on Validation *)

\* no adapter method has been called
AdapterIdle ==
    /\ record = JNull
    /\ converted = NoOutcome
    /\ restored = NoOutcome

\* no handler has run
HandlerIdle ==
    /\ http = JNull
    /\ environ = JNull
    /\ parse_result = NoOutcome
    /\ calls = <<>>
    /\ response = NoOutcome
    /\ output_format = NoOutcome
    /\ template_context = NoOutcome
    /\ blob = NoOutcome

\* `file` when no file object is passed (None)
NoFile ==
    [given |-> FALSE, named |-> FALSE, name |-> <<>>, size |-> 0,
     position |-> 0, closed |-> FALSE]

\* docx_to_pdf has not been called
ClientIdle ==
    /\ file = NoFile
    /\ max_retries = 0
    /\ retry_count = 0
    /\ last_error = JNull
    /\ posts = <<>>
    /\ pdf_response = NoOutcome

\* no request has been served yet
StorageIdle ==
    /\ clock = 0
    /\ served = <<>>

InitValidation ==
    /\ request \in Requests
    /\ pc = "start"
    /\ result = NoOutcome
    /\ transformed = NoOutcome
    /\ transformed2 = NoOutcome
    /\ heap = <<>>
    /\ req_body = JNull
    /\ section_order = JNull
    /\ section_visibility = JNull
    /\ is_anonymized = FALSE
    /\ context = NoOutcome
    /\ AdapterIdle
    /\ HandlerIdle
    /\ ClientIdle
    /\ StorageIdle

\* validation.validate_request(request)
ValidateRequest ==
    /\ pc = "start"
    /\ result' = validate_request(request)
    /\ pc' = "validated"
    /\ UNCHANGED <<clientVars, storageVars, request, transformed, transformed2, contextVars, adapterVars, handlerVars>>

\* validation._transform_request_keys(request)
TransformRequestKeys ==
    /\ pc = "start"
    /\ transformed' = transform_request_keys(request)
    /\ pc' = "transformed"
    /\ UNCHANGED <<clientVars, storageVars, request, result, transformed2, contextVars, adapterVars, handlerVars>>

\* validation._transform_request_keys(<the structure returned before>)
TransformAgain ==
    /\ pc = "transformed"
    /\ Returned(transformed)
    /\ transformed2' = transform_request_keys(transformed[2])
    /\ pc' = "transformed2"
    /\ UNCHANGED <<clientVars, storageVars, request, result, transformed, contextVars, adapterVars, handlerVars>>

NextValidation == ValidateRequest \/ TransformRequestKeys \/ TransformAgain

SpecValidation == InitValidation /\ [][NextValidation]_vars

-----------------------------------------------------------------------------
(* The calls that build a rendering context *)

sEmail == <<"j", "@", "x">>
sPhone == <<"0", "7">>

\* an experience entry that carries personal fields of its own
ExperienceEntry ==
    JDict(<< <<"role", JStr(sAcme)>>, <<"company", JStr(sAcme)>>,
             <<"email", JStr(sEmail)>>, <<"firstName", JStr(sJohn)>> >>)

PersonalItems ==
    DictsOver(<< <<"firstName", {JStr(sJohn), JStr(sDoe), JStr(sEmpty), JNull, JInt(1)}>>,
                 <<"surname", {JStr(sDoe), JStr(sEmpty)}>>,
                 <<"email", {JStr(sEmail)}>>,
                 <<"phone", {JStr(sPhone)}>>,
                 <<"address", {JStr(sAcme)}>>,
                 <<"linkedin", {JStr(sAcme)}>>,
                 <<"experience", {JList(<<ExperienceEntry>>)}>> >>)

RecordItems ==
    DictsOver(<< <<"data", {JDict(d) : d \in PersonalItems} \cup {JNull}>>,
                 <<"sectionOrder", {JList(<<JStr(sAcme)>>)}>>,
                 <<"sectionVisibility", {JDict(<< <<"skills", JBool(TRUE)>> >>)}>>,
                 <<"recruiterProfile",
                     {JDict(<< <<"firstName", JStr(sJohn)>>,
                               <<"email", JStr(sEmail)>> >>)}>> >>)
Records == {JDict(r) : r \in RecordItems}

\* the options a caller passes: none, empty ones, or given ones
OrderOptions == {JNull, JList(<<>>), JList(<<JStr(sDoe), JStr(sAcme)>>)}
VisibilityOptions ==
    {JNull, JDict(<<>>),
     JDict(<< <<"skills", JBool(FALSE)>>, <<"experience", JBool(TRUE)>> >>)}
Options ==
    {<<o, v>> \in OrderOptions \X VisibilityOptions :
        (o = JNull) = (v = JNull) \/ o = JList(<<>>) \/ v = JDict(<<>>)}

\* the caller holds the record and the options as objects of its own
InitContext ==
    /\ request \in Records
    /\ \E opt \in Options :
          LET r == Store(<<>>, request)
              o == Store(r[1], opt[1])
              v == Store(o[1], opt[2]) IN
          /\ heap = v[1]
          /\ req_body = r[2]
          /\ section_order = o[2]
          /\ section_visibility = v[2]
    /\ is_anonymized = FALSE
    /\ context = NoOutcome
    /\ pc = "start"
    /\ result = NoOutcome
    /\ transformed = NoOutcome
    /\ transformed2 = NoOutcome
    /\ AdapterIdle
    /\ HandlerIdle
    /\ ClientIdle
    /\ StorageIdle

\* anonymize_cv_data(req_body)
AnonymizeCvData ==
    /\ pc = "start"
    /\ LET r == anonymize_cv_data(heap, req_body) IN
       /\ heap' = r[1]
       /\ context' = r[2]
    /\ is_anonymized' = TRUE
    /\ pc' = "anonymized"
    /\ UNCHANGED <<clientVars, storageVars, request, validationVars, adapterVars, handlerVars, req_body,
                 section_order, section_visibility>>

\* prepare_template_context(req_body, section_order, section_visibility, anon)
PrepareTemplateContext ==
    /\ pc = "start"
    /\ \E anon \in BOOLEAN :
          LET r == prepare_template_context(heap, req_body, section_order,
                                            section_visibility, anon) IN
          /\ heap' = r[1]
          /\ context' = r[2]
          /\ is_anonymized' = anon
    /\ pc' = "prepared"
    /\ UNCHANGED <<clientVars, storageVars, request, validationVars, adapterVars, handlerVars, req_body,
                 section_order, section_visibility>>

NextContext == AnonymizeCvData \/ PrepareTemplateContext

SpecContext == InitContext /\ [][NextContext]_vars

-----------------------------------------------------------------------------
(* Claims about validate_request and _transform_request_keys               *)
(* (specification SpecValidation)                                          *)

Validated == pc = "validated"
Accepted == pc = "validated" /\ result = Return(TRUE)
Rejected == pc = "validated" /\ result = Return(FALSE)

\* the request as CVGenerationRequest.model_validate sees it
Normalized == transform_request_keys(request)[2]
NormalizedData == Get(Normalized[2], "data")

\* mapping d is without key k: read literally, without the key as the claim
\* spells it; otherwise, without it under both spellings the normalizer accepts
Lacks(d, k, literally) ==
    IF literally THEN ~HasKey(d[2], k)
    ELSE ~HasKey(d[2], k) /\ ~HasKey(d[2], NewKey(k))

\* some element of data.experience is without role, company or startDate
ItemLacking(d, literally) ==
    /\ HasKey(d[2], "experience")
    /\ IsList(Get(d[2], "experience"))
    /\ \E i \in 1..Len(Get(d[2], "experience")[2]) :
          LET item == Get(d[2], "experience")[2][i] IN
          \/ ~IsDict(item)
          \/ Lacks(item, "role", literally)
          \/ Lacks(item, "company", literally)
          \/ Lacks(item, "startDate", literally)

\* the request is without data, its data without a name, or an experience
\* without a required key
MissingRequired(req, literally) ==
    /\ IsDict(req)
    /\ \/ ~HasKey(req[2], "data")
       \/ /\ IsDict(Get(req[2], "data"))
          /\ \/ Lacks(Get(req[2], "data"), "firstName", literally)
             \/ Lacks(Get(req[2], "data"), "surname", literally)
             \/ ItemLacking(Get(req[2], "data"), literally)

\* C1 as stated: validate_request returns False, and does not raise, for every
\* request without data, whose data has no firstName key or no surname key, or
\* with an experience element that has no role, company or startDate key.
C1_AsStated ==
    /\ Validated => Returned(result)
    /\ Validated /\ MissingRequired(request, TRUE) => result = Return(FALSE)

\* C1 (amended): validate_request returns False, and does not raise, for every
\* request without data, whose data carries the first name under neither
\* spelling (firstName, first_name) or no surname, or with an experience
\* element that carries no role, no company, or the start date under neither
\* spelling (startDate, start_date).
C1_MissingRequiredRejected ==
    /\ Validated => Returned(result)
    /\ Validated /\ MissingRequired(request, FALSE) => result = Return(FALSE)

\* a two-element experience list whose first element is complete and whose
\* second element has no start date has been rejected
C1_Witness ==
    /\ Rejected
    /\ IsDict(request) /\ HasKey(request[2], "data")
    /\ IsDict(Get(request[2], "data"))
    /\ HasKey(Get(request[2], "data")[2], "experience")
    /\ LET l == Get(Get(request[2], "data")[2], "experience")[2] IN
       /\ Len(l) = 2
       /\ IsDict(l[1]) /\ Keys(l[1][2]) = {"role", "company", "startDate"}
       /\ IsDict(l[2]) /\ Keys(l[2][2]) = {"role", "company"}

\* v is of JSON type t, read in the request's spelling: a declared field that
\* is present (under either spelling) has the declared type, or is null if
\* optional; required fields are present; other keys may hold anything
RECURSIVE WellTyped(_, _)
WellTyped(t, v) ==
    CASE t[1] = "str" -> IsStr(v)
      [] t[1] = "bool" -> IsBool(v)
      [] t[1] = "pattern" -> v \in {JStr(sDoc), JStr(sDocx), JStr(sPdf)}
      [] t[1] = "list" -> IsList(v) /\ \A i \in 1..Len(v[2]) : WellTyped(t[2], v[2][i])
      [] t[1] = "model" ->
            /\ IsDict(v)
            /\ \A i \in 1..Len(Fields(t[2])) :
                  ~Fields(t[2])[i][3] =>
                     \E j \in 1..Len(v[2]) : NewKey(v[2][j][1]) = Fields(t[2])[i][1]
            /\ \A j \in 1..Len(v[2]) : \A i \in 1..Len(Fields(t[2])) :
                  NewKey(v[2][j][1]) = Fields(t[2])[i][1] =>
                     \/ Fields(t[2])[i][3] /\ v[2][j][2] = JNull
                     \/ WellTyped(Fields(t[2])[i][2], v[2][j][2])

\* the keys of mapping v that are no field of model `name`
Undeclared(name, v) ==
    {k \in Keys(v[2]) : \A i \in 1..Len(Fields(name)) : NewKey(k) # Fields(name)[i][1]}

\* C2: validate_request returns True for every request whose data carries
\* string firstName and surname and whose other declared fields, where
\* present, are well-typed, whatever undeclared keys appear at the top level,
\* inside data or inside list items.
C2_WellTypedAccepted ==
    Validated /\ WellTyped(TModel("CVGenerationRequest"), request)
        => result = Return(TRUE)

\* a request with undeclared keys at the top level, in data and in a list item
\* has been accepted
C2_Witness ==
    /\ Accepted
    /\ Undeclared("CVGenerationRequest", request) # {}
    /\ Undeclared("CVData", Get(request[2], "data")) # {}
    /\ HasKey(Get(request[2], "data")[2], "professionalMemberships")
    /\ Undeclared("ProfessionalMembership",
          Get(Get(request[2], "data")[2], "professionalMemberships")[2][1]) # {}

\* v is a string / a non-empty string held under key k of mapping d
StrField(d, k) == HasKey(d[2], k) /\ IsStr(Get(d[2], k))
NonEmptyStrField(d, k) == StrField(d, k) /\ Len(Get(d[2], k)[2]) > 0

\* C3 as stated: a record is accepted only if data.first_name and data.surname
\* are both present and are non-empty strings.
C3_AsStated ==
    Accepted => /\ NonEmptyStrField(NormalizedData, "first_name")
                /\ NonEmptyStrField(NormalizedData, "surname")

\* C3 (amended): a record is accepted only if data.first_name and data.surname
\* are both present and are strings; the empty string is accepted.
C3_NamesAreStrings ==
    Accepted => /\ StrField(NormalizedData, "first_name")
                /\ StrField(NormalizedData, "surname")

\* a record whose first name is the empty string has been accepted
C3_Witness ==
    /\ Accepted
    /\ Get(NormalizedData[2], "first_name") = JStr(sEmpty)

\* C4 as stated: a request is accepted only if its output format is absent or
\* is exactly one of 'doc', 'docx', 'pdf'.
C4_AsStated ==
    Accepted =>
        \/ ~HasKey(Normalized[2], "output_format")
        \/ Get(Normalized[2], "output_format") \in {JStr(sDoc), JStr(sDocx), JStr(sPdf)}

\* C4 (amended): a request is accepted only if its output format is absent, is
\* null, or is exactly one of 'doc', 'docx', 'pdf'; every other value makes
\* validate_request return False.
C4_OutputFormatClosed ==
    Accepted =>
        \/ ~HasKey(Normalized[2], "output_format")
        \/ Get(Normalized[2], "output_format")
              \in {JNull, JStr(sDoc), JStr(sDocx), JStr(sPdf)}

\* a request whose output format is 'docx' has been accepted, and one whose
\* output format is 'pdfx' would be rejected
C4_Witness ==
    /\ Accepted
    /\ HasKey(request[2], "outputFormat")
    /\ Get(Normalized[2], "output_format") = JStr(sDocx)

\* the last item of mapping x whose key is renamed to k
LastRenamedTo(x, k) ==
    CHOOSE i \in 1..Len(x[2]) :
        /\ NewKey(x[2][i][1]) = k
        /\ \A j \in (i + 1)..Len(x[2]) : NewKey(x[2][j][1]) # k

\* y is x with the keys of every mapping renamed, item by item
RECURSIVE RenamedItemwise(_, _)
RenamedItemwise(x, y) ==
    IF IsDict(x)
    THEN /\ IsDict(y) /\ Len(y[2]) = Len(x[2])
         /\ \A i \in 1..Len(x[2]) :
               /\ y[2][i][1] = NewKey(x[2][i][1])
               /\ RenamedItemwise(x[2][i][2], y[2][i][2])
    ELSE IF IsList(x) /\ AllDicts(x[2])
    THEN /\ IsList(y) /\ Len(y[2]) = Len(x[2])
         /\ \A i \in 1..Len(x[2]) : RenamedItemwise(x[2][i], y[2][i])
    ELSE y = x

\* y is x with the keys of every mapping renamed; keys with the same new name
\* become one key, which holds the image of the last of them
RECURSIVE RenamedMerging(_, _)
RenamedMerging(x, y) ==
    IF IsDict(x)
    THEN /\ IsDict(y)
         /\ Keys(y[2]) = {NewKey(k) : k \in Keys(x[2])}
         /\ Len(y[2]) = Cardinality(Keys(y[2]))
         /\ \A j \in 1..Len(y[2]) :
               RenamedMerging(x[2][LastRenamedTo(x, y[2][j][1])][2], y[2][j][2])
    ELSE IF IsList(x) /\ AllDicts(x[2])
    THEN /\ IsList(y) /\ Len(y[2]) = Len(x[2])
         /\ \A i \in 1..Len(x[2]) : RenamedMerging(x[2][i], y[2][i])
    ELSE y = x

TransformedMapping == pc = "transformed" /\ IsDict(request)

\* C5 as stated: _transform_request_keys returns a structure of the same shape
\* as its input in which, in every mapping reached through nested mappings and
\* through all-mappings sequences, each key of the rename table is replaced
\* by its snake_case form and every other key is kept; every other value
\* (scalars, sequences of scalars, mixed sequences) is returned unchanged.
C5_AsStated ==
    TransformedMapping =>
        Returned(transformed) /\ RenamedItemwise(request, transformed[2])

\* C5 (amended): as stated, except that the shape is not kept where several
\* keys of one mapping have the same snake_case form (firstName and
\* first_name): they become one key, which holds the image of the value of
\* the last of them in the mapping's order.
C5_KeysRenamed ==
    TransformedMapping =>
        Returned(transformed) /\ RenamedMerging(request, transformed[2])

\* a request with a nested mapping, an all-mappings list with a renamed key
\* and a mixed list that holds a mapping has been transformed
C5_Witness ==
    /\ TransformedMapping
    /\ HasKey(request[2], "data")
    /\ IsDict(Get(request[2], "data"))
    /\ LET d == Get(request[2], "data")[2]
           n == Get(transformed[2][2], "data")[2] IN
       /\ HasKey(d, "skills") /\ Get(d, "skills") = MixedList
       /\ HasKey(d, "education") /\ HasKey(Get(n, "education")[2][1][2], "end_date")
       /\ HasKey(n, "first_name")

\* C6: key normalization is idempotent: _transform_request_keys applied to its
\* own result returns that result, also for structures that hold snake_case
\* keys or both spellings of a key in one mapping.
C6_Idempotent ==
    pc = "transformed2" => transformed2 = transformed

\* a mapping holding both spellings of a key has been normalized twice
C6_Witness ==
    /\ pc = "transformed2"
    /\ HasKey(request[2], "data") /\ IsDict(Get(request[2], "data"))
    /\ {"firstName", "first_name"} \subseteq Keys(Get(request[2], "data")[2])
    /\ transformed[2] # request

-----------------------------------------------------------------------------
(* Claims about anonymize_cv_data and prepare_template_context             *)
(* (specification SpecContext); `request` is the value of the caller's     *)
(* record when the call was made                                           *)

AnonymizationApplied ==
    pc = "anonymized" \/ (pc = "prepared" /\ is_anonymized)
AnonymizedContext == AnonymizationApplied /\ Returned(context)

\* the value of the returned context, and of its data
ContextValue == Deref(heap, context[2])
ContextData == Get(ContextValue[2], "data")

\* the record carries a data object
HasData == HasKey(request[2], "data") /\ IsDict(Get(request[2], "data"))
RequestData == Get(request[2], "data")

PersonalFields == {"firstName", "surname", "email", "phone", "address", "linkedin"}

\* C7: anonymization never mutates the caller's record: after
\* anonymize_cv_data(data) or prepare_template_context(req_body, ...,
\* is_anonymized=True) the record passed in, with its nested data object and
\* lists, has the value it had before the call.
C7_CallerRecordUnchanged ==
    AnonymizationApplied => Deref(heap, req_body) = request

\* prepare_template_context has returned an anonymized context whose first
\* name differs from the caller's
C7_Witness ==
    /\ pc = "prepared" /\ is_anonymized /\ Returned(context)
    /\ HasData
    /\ {"firstName", "surname", "experience"} \subseteq Keys(RequestData[2])
    /\ Get(RequestData[2], "firstName") = JStr(sJohn)
    /\ Get(ContextData[2], "firstName") = JStr(<<"J", ".">>)

\* first character plus '.', or the default initial for an empty name
Placeholder(name, default) ==
    IF IsStr(name) /\ Len(name[2]) > 0 THEN JStr(<<name[2][1], ".">>)
    ELSE JStr(<<default, ".">>)

\* C8: for every record whose data carries firstName, surname, email, phone,
\* address and linkedin (the names being strings), anonymization yields
\* firstName and surname = first character + '.', 'A.' resp. 'B.' for an
\* empty name, email 'candidate@example.com', phone '+44 XXX XXX XXXX',
\* address 'United Kingdom' and linkedin 'linkedin.com/in/candidate'.
C8_PersonalFieldsReplaced ==
    (/\ AnonymizationApplied /\ HasData
     /\ PersonalFields \subseteq Keys(RequestData[2])
     /\ IsStr(Get(RequestData[2], "firstName"))
     /\ IsStr(Get(RequestData[2], "surname")))
    => /\ Returned(context)
       /\ Get(ContextData[2], "firstName")
             = Placeholder(Get(RequestData[2], "firstName"), "A")
       /\ Get(ContextData[2], "surname")
             = Placeholder(Get(RequestData[2], "surname"), "B")
       /\ Get(ContextData[2], "email") = JStr(sCandidateEmail)
       /\ Get(ContextData[2], "phone") = JStr(sCandidatePhone)
       /\ Get(ContextData[2], "address") = JStr(sCandidateAddress)
       /\ Get(ContextData[2], "linkedin") = JStr(sCandidateLinkedin)

\* a record with the six fields and an empty first name has been anonymized
C8_Witness ==
    /\ AnonymizedContext /\ HasData
    /\ PersonalFields \subseteq Keys(RequestData[2])
    /\ Get(RequestData[2], "firstName") = JStr(sEmpty)
    /\ Get(RequestData[2], "surname") = JStr(sDoe)
    /\ Get(ContextData[2], "firstName") = JStr(<<"A", ".">>)
    /\ Get(ContextData[2], "surname") = JStr(<<"D", ".">>)

\* the name held under key k of mapping d, null when it is absent
NameOrNull(d, k) == IF HasKey(d[2], k) THEN Get(d[2], k) ELSE JNull

\* C9: whenever anonymization is applied to a record that carries a data
\* object, the resulting first name and surname are placeholders (first
\* character plus '.', or 'A.' / 'B.' when the original is empty or absent),
\* for every combination of the two names being present or absent.
C9_NamesAlwaysPlaceholders ==
    AnonymizedContext /\ HasData =>
        /\ NameOrNull(ContextData, "firstName")
              = Placeholder(NameOrNull(RequestData, "firstName"), "A")
        /\ NameOrNull(ContextData, "surname")
              = Placeholder(NameOrNull(RequestData, "surname"), "B")

\* the record as the call received it: for prepare_template_context, with the
\* options that were given
GivenRecord ==
    LET order == Deref(heap, section_order)
        visibility == Deref(heap, section_visibility)
        given(v) == IsContainer(v) /\ Len(v[2]) > 0
        r1 == IF pc = "prepared" /\ given(order)
              THEN DictSet(request[2], "sectionOrder", order) ELSE request[2]
        r2 == IF pc = "prepared" /\ given(visibility)
              THEN DictSet(r1, "sectionVisibility", visibility) ELSE r1
    IN JDict(r2)

\* out is inp but for the values of the personal fields of data
SameButPersonalFields(inp, out) ==
    /\ IsDict(out) /\ Len(out[2]) = Len(inp[2])
    /\ Keys(out[2]) = Keys(inp[2])
    /\ \A k \in Keys(inp[2]) :
          IF k = "data" /\ IsDict(Get(inp[2], k))
          THEN LET din == Get(inp[2], k)
                   dout == Get(out[2], k) IN
               /\ IsDict(dout) /\ Len(dout[2]) = Len(din[2])
               /\ Keys(dout[2]) = Keys(din[2])
               /\ \A f \in Keys(din[2]) \ PersonalFields :
                     Get(dout[2], f) = Get(din[2], f)
          ELSE Get(out[2], k) = Get(inp[2], k)

\* C10: anonymization changes nothing except the six personal fields of data:
\* it adds no email, phone, address or linkedin key that was absent, and every
\* other part of the record (other data fields, nested lists, sectionOrder,
\* sectionVisibility, recruiterProfile) is equal in the context to the input.
C10_OnlyPersonalFieldsChange ==
    AnonymizedContext => SameButPersonalFields(GivenRecord, ContextValue)

\* a record without email, with an experience list, a recruiter profile and
\* given options has been anonymized by prepare_template_context
C10_Witness ==
    /\ pc = "prepared" /\ is_anonymized /\ Returned(context)
    /\ HasData
    /\ Keys(RequestData[2]) = {"firstName", "surname", "phone", "experience"}
    /\ Get(ContextData[2], "phone") = JStr(sCandidatePhone)
    /\ {"recruiterProfile", "sectionOrder"} \subseteq Keys(request[2])
    /\ Get(ContextValue[2], "sectionOrder") = JList(<<JStr(sDoe), JStr(sAcme)>>)
    /\ Get(ContextValue[2], "sectionOrder") # Get(request[2], "sectionOrder")

\* ---------------------------------------------------------------------------
\* Claim C11 (SpecContext)

\* C11: prepare_template_context called with a sectionOrder and/or a
\* sectionVisibility returns a context whose sectionOrder and
\* sectionVisibility equal the given values exactly, for every given value
\* (the empty list and the empty mapping included); called with neither
\* option and without anonymization it returns a context equal to the request.
C11_GivenOptionsCopied ==
    pc = "prepared" /\ Returned(context) =>
        /\ section_order # JNull =>
              /\ HasKey(ContextValue[2], "sectionOrder")
              /\ Get(ContextValue[2], "sectionOrder")
                    = Deref(heap, section_order)
        /\ section_visibility # JNull =>
              /\ HasKey(ContextValue[2], "sectionVisibility")
              /\ Get(ContextValue[2], "sectionVisibility")
                    = Deref(heap, section_visibility)
        /\ (section_order = JNull /\ section_visibility = JNull
               /\ ~is_anonymized) => ContextValue = request

-----------------------------------------------------------------------------
(* utils/adapter.py: HireableCVAdapter                                     *)
(* The adapter works on plain values: nothing it returns is mutated later  *)

\* bool(v): None, False, 0 and empty strings, lists and mappings are falsy
IsTruthy(v) ==
    CASE v[1] = "null" -> FALSE
      [] v[1] = "bool" -> v[2]
      [] v[1] = "int" -> v[2] # 0
      [] OTHER -> Len(v[2]) > 0

\* d.get(k, default) on a mapping d: the default only when k is absent
PyGet(d, k, default) == IF HasKey(d[2], k) THEN Get(d[2], k) ELSE default

\* `sub in s` on strings
Contains(s, sub) ==
    \E i \in 0..(Len(s) - Len(sub)) : SubSeq(s, i + 1, i + Len(sub)) = sub

EmptyStr == JStr(<<>>)

\* mutant: only the isinstance test
MutEmptyInput(v) == ~IsDict(v)
\* `if not parser_data or not isinstance(parser_data, dict)`
EmptyInput(v) == ~IsTruthy(v) \/ ~IsDict(v)

\* the list subsections of parser_to_generator: for each, the output key,
\* the input key and the default of every field
ParserToGeneratorFields ==
    << <<"experience",
         << <<"role", "title", EmptyStr>>,
            <<"company", "company", EmptyStr>>,
            <<"startDate", "start_date", EmptyStr>>,
            <<"endDate", "end_date", EmptyStr>>,
            <<"current", "is_current", JBool(FALSE)>>,
            <<"description", "description", EmptyStr>> >> >>,
       <<"education",
         << <<"institution", "institution", EmptyStr>>,
            <<"degree", "degree", EmptyStr>>,
            <<"startDate", "start_date", EmptyStr>>,
            <<"endDate", "end_date", EmptyStr>>,
            <<"grade", "grade", EmptyStr>> >> >>,
       <<"certifications",
         << <<"name", "name", EmptyStr>>,
            <<"issuer", "issuer", EmptyStr>>,
            <<"date", "date", EmptyStr>>,
            <<"description", "description", EmptyStr>> >> >>,
       <<"languages",
         << <<"language", "language", EmptyStr>>,
            <<"proficiency", "proficiency", EmptyStr>> >> >>,
       <<"achievements",
         << <<"title", "title", EmptyStr>>,
            <<"description", "description", EmptyStr>>,
            <<"date", "date", EmptyStr>> >> >> >>

\* the list subsections of generator_to_parser
GeneratorToParserFields ==
    << <<"experience",
         << <<"title", "role", EmptyStr>>,
            <<"company", "company", EmptyStr>>,
            <<"start_date", "startDate", EmptyStr>>,
            <<"end_date", "endDate", EmptyStr>>,
            <<"is_current", "current", JBool(FALSE)>>,
            <<"description", "description", EmptyStr>> >> >>,
       <<"education",
         << <<"institution", "institution", EmptyStr>>,
            <<"degree", "degree", EmptyStr>>,
            <<"start_date", "startDate", EmptyStr>>,
            <<"end_date", "endDate", EmptyStr>>,
            <<"grade", "grade", EmptyStr>> >> >>,
       <<"certifications",
         << <<"name", "name", EmptyStr>>,
            <<"issuer", "issuer", EmptyStr>>,
            <<"date", "date", EmptyStr>>,
            <<"description", "description", EmptyStr>> >> >>,
       <<"languages",
         << <<"language", "language", EmptyStr>>,
            <<"proficiency", "proficiency", EmptyStr>> >> >>,
       <<"achievements",
         << <<"title", "title", EmptyStr>>,
            <<"description", "description", EmptyStr>>,
            <<"date", "date", EmptyStr>> >> >> >>

\* mutant: a field the item lacks is given as None
MutMapItem(item, fields) ==
    JDict([i \in 1..Len(fields) |->
              <<fields[i][1], PyGet(item, fields[i][2], JNull)>>])
\* {out: item.get(in, default), ...} for one item of a subsection
MapItem(item, fields) ==
    JDict([i \in 1..Len(fields) |->
              <<fields[i][1], PyGet(item, fields[i][2], fields[i][3])>>])

\* mutant: the items in reverse order
MutMapList(list, fields) ==
    JList([i \in 1..Len(list[2]) |->
              MapItem(list[2][Len(list[2]) + 1 - i], fields)])
\* [ {...} for item in list ]
MapList(list, fields) ==
    JList([i \in 1..Len(list[2]) |-> MapItem(list[2][i], fields)])

\* `if "<section>" in src and isinstance(src["<section>"], list)`
HasList(src, key) == HasKey(src[2], key) /\ IsList(Get(src[2], key))

\* the subsection blocks, in the order of the code: each list subsection of
\* src is mapped and stored under the same key of the output mapping
RECURSIVE MapSections(_, _, _, _)
MapSections(src, items, sections, i) ==
    IF i > Len(sections) THEN items
    ELSE MapSections(src,
             IF HasList(src, sections[i][1])
             THEN DictSet(items, sections[i][1],
                          MapList(Get(src[2], sections[i][1]), sections[i][2]))
             ELSE items,
             sections, i + 1)

\* item.get on an item that is not a mapping: AttributeError
SectionsRaise(src, sections) ==
    \E i \in 1..Len(sections) :
        /\ HasList(src, sections[i][1])
        /\ \E j \in 1..Len(Get(src[2], sections[i][1])[2]) :
              ~IsDict(Get(src[2], sections[i][1])[2][j])

sLinkedin == <<"l", "i", "n", "k", "e", "d", "i", "n">>
sGithub == <<"g", "i", "t", "h", "u", "b">>
sGitlab == <<"g", "i", "t", "l", "a", "b">>

\* `for link in parser_data["links"]`: every string link that names
\* linkedin is assigned to data.linkedin, every other one that names github
\* or gitlab to data.website
\* mutant: the links are not looked at
MutAssignLinks(links, i, items) == items
RECURSIVE AssignLinks(_, _, _)
AssignLinks(links, i, items) ==
    IF i > Len(links) THEN items
    ELSE LET link == links[i] IN
         AssignLinks(links, i + 1,
             IF ~IsStr(link) THEN items
             ELSE IF Contains(Lower(link[2]), sLinkedin)
             THEN DictSet(items, "linkedin", link)
             ELSE IF \/ Contains(Lower(link[2]), sGithub)
                     \/ Contains(Lower(link[2]), sGitlab)
             THEN DictSet(items, "website", link)
             ELSE items)

parser_to_generator(parser_data) ==
    IF EmptyInput(parser_data) THEN Return(JDict(<<>>))
    ELSE LET contact == PyGet(parser_data, "contact_info", JDict(<<>>)) IN
         IF ~IsDict(contact) THEN Raise("AttributeError")
         ELSE IF SectionsRaise(parser_data, ParserToGeneratorFields)
         THEN Raise("AttributeError")
         ELSE
         LET basic ==
                 << <<"firstName", PyGet(contact, "first_name", EmptyStr)>>,
                    <<"surname", PyGet(contact, "last_name", EmptyStr)>>,
                    <<"email", PyGet(contact, "email", JNull)>>,
                    <<"phone", PyGet(contact, "phone", JNull)>>,
                    <<"address", PyGet(contact, "location", JNull)>>,
                    <<"profileStatement",
                      PyGet(parser_data, "personal_statement", EmptyStr)>> >>
             linked ==
                 IF HasList(parser_data, "links")
                 THEN AssignLinks(Get(parser_data[2], "links")[2], 1, basic)
                 ELSE basic
             skilled ==
                 IF HasList(parser_data, "skills")
                 THEN DictSet(linked, "skills", Get(parser_data[2], "skills"))
                 ELSE linked
         IN Return(JDict(<< <<"data",
                 JDict(MapSections(parser_data, skilled,
                                   ParserToGeneratorFields, 1))>> >>))

\* mutant: the website first
MutLinks(data) ==
    (IF IsTruthy(PyGet(data, "website", JNull))
     THEN <<Get(data[2], "website")>> ELSE <<>>)
    \o (IF IsTruthy(PyGet(data, "linkedin", JNull))
        THEN <<Get(data[2], "linkedin")>> ELSE <<>>)
\* links = [data.linkedin if truthy] + [data.website if truthy]
Links(data) ==
    (IF IsTruthy(PyGet(data, "linkedin", JNull))
     THEN <<Get(data[2], "linkedin")>> ELSE <<>>)
    \o (IF IsTruthy(PyGet(data, "website", JNull))
        THEN <<Get(data[2], "website")>> ELSE <<>>)

generator_to_parser(generator_data) ==
    IF EmptyInput(generator_data) THEN Return(JDict(<<>>))
    ELSE LET data == PyGet(generator_data, "data", JDict(<<>>)) IN
         IF ~IsDict(data) THEN Raise("AttributeError")
         ELSE IF SectionsRaise(data, GeneratorToParserFields)
         THEN Raise("AttributeError")
         ELSE
         LET basic ==
                 << <<"contact_info", JDict(
                       << <<"first_name", PyGet(data, "firstName", EmptyStr)>>,
                          <<"last_name", PyGet(data, "surname", EmptyStr)>>,
                          <<"email", PyGet(data, "email", EmptyStr)>>,
                          <<"phone", PyGet(data, "phone", EmptyStr)>>,
                          <<"location", PyGet(data, "address", EmptyStr)>> >>)>>,
                    <<"personal_statement",
                      PyGet(data, "profileStatement", EmptyStr)>> >>
             linked ==
                 IF Len(Links(data)) > 0
                 THEN Append(basic, <<"links", JList(Links(data))>>)
                 ELSE basic
             skilled ==
                 IF HasList(data, "skills")
                 THEN DictSet(linked, "skills", Get(data[2], "skills"))
                 ELSE linked
         IN Return(JDict(MapSections(data, skilled,
                                     GeneratorToParserFields, 1)))

-----------------------------------------------------------------------------
(* The calls on HireableCVAdapter *)

sLinkedinA == sLinkedin \o <<"/", "a">>
sLinkedInB == <<"L", "i", "n", "k", "e", "d", "I", "n", "/", "b">>
sGithubA == sGithub \o <<"/", "a">>
sGitLabB == <<"G", "i", "t", "L", "a", "b", "/", "b">>
sGithubLinkedin == sGithub \o <<"/">> \o sLinkedin
sOther == <<"x", ".", "i", "o">>

Skills == JList(<<JStr(sAcme), JStr(sDoe)>>)

\* links as a parser reports them: any mix of addresses, one not a string
LinkVals ==
    {JStr(sLinkedinA), JStr(sLinkedInB), JStr(sGithubA), JStr(sGitLabB),
     JStr(sGithubLinkedin), JStr(sOther), JInt(7)}
LinkLists == {JList(l) : l \in SeqsUpTo(LinkVals, MaxItems)}

FullContact ==
    JDict(<< <<"first_name", JStr(sJohn)>>, <<"last_name", JStr(sDoe)>>,
             <<"email", JStr(sEmail)>>, <<"phone", JStr(sPhone)>>,
             <<"location", JStr(sAcme)>> >>)
ContactVals ==
    {FullContact, JDict(<<>>), JNull, JStr(sJohn),
     JDict(<< <<"first_name", JStr(sJohn)>>, <<"email", JNull>> >>)}

\* items of a parser's experience list: complete, empty, with null values,
\* and not a mapping
ParserItems ==
    {JDict(<< <<"title", JStr(sAcme)>>, <<"company", JStr(sDoe)>>,
              <<"start_date", JStr(sPhone)>>, <<"end_date", EmptyStr>>,
              <<"is_current", JBool(TRUE)>>, <<"description", JStr(sJohn)>> >>),
     JDict(<<>>),
     JDict(<< <<"title", JStr(sDoe)>>, <<"end_date", JNull>> >>),
     JStr(sAcme)}
ParserLists == {JList(l) : l \in SeqsUpTo(ParserItems, MaxItems)}

ParserRecords ==
    {JDict(r) : r \in
        DictsOver(<< <<"contact_info", ContactVals>>,
                     <<"personal_statement", {JStr(sAcme)}>> >>)}
    \cup {JDict(r) : r \in
        DictsOver(<< <<"contact_info", {FullContact}>>,
                     <<"links", LinkLists \cup {JNull}>>,
                     <<"skills", {Skills, JStr(sAcme)}>> >>)}
    \cup {JDict(r) : r \in
        DictsOver(<< <<"contact_info", {FullContact}>>,
                     <<"experience", ParserLists \cup {JNull}>>,
                     <<"education",
                       {JList(<<JDict(<< <<"institution", JStr(sAcme)>>,
                                         <<"start_date", JStr(sPhone)>> >>)>>)}>>,
                     <<"certifications",
                       {JList(<<JDict(<< <<"name", JStr(sAcme)>> >>),
                                JDict(<< <<"issuer", JStr(sDoe)>> >>)>>)}>>,
                     <<"languages",
                       {JList(<<JDict(<< <<"language", JStr(sAcme)>>,
                                         <<"proficiency", JNull>> >>)>>),
                        JList(<<JInt(1)>>)}>>,
                     <<"achievements",
                       {JList(<<JDict(<< <<"title", JStr(sAcme)>>,
                                         <<"date", JStr(sPhone)>> >>)>>)}>> >>)}

\* items of a generator record's experience list
GeneratorItems ==
    {JDict(<< <<"role", JStr(sAcme)>>, <<"company", JStr(sDoe)>>,
              <<"startDate", JStr(sPhone)>>, <<"current", JBool(TRUE)>> >>),
     JDict(<< <<"role", JNull>> >>),
     JInt(1)}
GeneratorLists == {JList(l) : l \in SeqsUpTo(GeneratorItems, MaxItems)}

GeneratorData ==
    {JDict(d) : d \in
        DictsOver(<< <<"firstName", {JStr(sJohn)}>>,
                     <<"surname", {JStr(sDoe)}>>,
                     <<"email", {JStr(sEmail), EmptyStr, JNull}>>,
                     <<"phone", {JStr(sPhone)}>>,
                     <<"linkedin", {JStr(sLinkedinA), JStr(sOther), EmptyStr}>>,
                     <<"website", {JStr(sGithubA), JStr(sOther),
                                   JStr(sGithubLinkedin), JNull}>>,
                     <<"skills", {Skills, JStr(sAcme)}>> >>)}
    \cup {JDict(<< <<"firstName", JStr(sJohn)>>, <<"surname", JStr(sDoe)>>,
                   <<"email", JStr(sEmail)>>, <<"phone", JStr(sPhone)>>,
                   <<"address", JStr(sAcme)>>,
                   <<"profileStatement", JStr(sAcme)>> >> \o d) : d \in
        DictsOver(<< <<"linkedin", {JStr(sLinkedinA), JStr(sLinkedInB)}>>,
                     <<"website", {JStr(sGithubA), JStr(sGitLabB)}>>,
                     <<"skills", {Skills}>>,
                     <<"experience", GeneratorLists \cup {JNull}>>,
                     <<"education",
                       {JList(<<JDict(<< <<"degree", JStr(sAcme)>>,
                                         <<"endDate", JStr(sPhone)>> >>)>>)}>>,
                     <<"languages",
                       {JList(<<JDict(<< <<"language", JStr(sAcme)>> >>)>>)}>> >>)}

GeneratorRecords ==
    {JDict(<< <<"data", d>> >>) :
        d \in GeneratorData \cup {JNull, JStr(sJohn), JList(<<>>)}}
    \cup {JDict(<< <<"template", JStr(sAcme)>> >>)}

\* None, the empty mapping, and values that are no mapping
NonMappings ==
    {JNull, JDict(<<>>), JList(<<>>), JList(<<FullContact>>), JStr(sJohn),
     EmptyStr, JInt(0), JInt(1), JBool(TRUE), JBool(FALSE)}

AdapterInputs == ParserRecords \cup GeneratorRecords \cup NonMappings

InitAdapter ==
    /\ record \in AdapterInputs
    /\ converted = NoOutcome
    /\ restored = NoOutcome
    /\ pc = "start"
    /\ request = JNull
    /\ result = NoOutcome
    /\ transformed = NoOutcome
    /\ transformed2 = NoOutcome
    /\ heap = <<>>
    /\ req_body = JNull
    /\ section_order = JNull
    /\ section_visibility = JNull
    /\ is_anonymized = FALSE
    /\ context = NoOutcome
    /\ HandlerIdle
    /\ ClientIdle
    /\ StorageIdle

\* HireableCVAdapter.parser_to_generator(record)
ParserToGenerator ==
    /\ pc = "start"
    /\ converted' = parser_to_generator(record)
    /\ pc' = "to_generator"
    /\ UNCHANGED <<clientVars, storageVars, request, validationVars, contextVars, handlerVars, record,
                   restored>>

\* HireableCVAdapter.generator_to_parser(record)
GeneratorToParser ==
    /\ pc = "start"
    /\ converted' = generator_to_parser(record)
    /\ pc' = "to_parser"
    /\ UNCHANGED <<clientVars, storageVars, request, validationVars, contextVars, handlerVars, record,
                   restored>>

\* HireableCVAdapter.parser_to_generator(<the parser record returned before>)
ParseBack ==
    /\ pc = "to_parser"
    /\ Returned(converted)
    /\ restored' = parser_to_generator(converted[2])
    /\ pc' = "round_trip"
    /\ UNCHANGED <<clientVars, storageVars, request, validationVars, contextVars, handlerVars, record,
                   converted>>

NextAdapter == ParserToGenerator \/ GeneratorToParser \/ ParseBack

SpecAdapter == InitAdapter /\ [][NextAdapter]_vars

-----------------------------------------------------------------------------
(* Claims about HireableCVAdapter (specification SpecAdapter)              *)

\* parser_to_generator has returned a record built from a non-empty mapping
ToGenerator ==
    pc = "to_generator" /\ Returned(converted) /\ ~EmptyInput(record)
GeneratorOut == Get(converted[2][2], "data")

\* generator_to_parser has returned a record built from a non-empty mapping
ToParser ==
    pc = "to_parser" /\ Returned(converted) /\ ~EmptyInput(record)
ParserOut == converted[2]

\* out holds, item by item and in the same order, the image of the list inp:
\* each field of the table taken from the item, or its default when absent
ElementWise(inp, out, fields) ==
    /\ IsList(out) /\ Len(out[2]) = Len(inp[2])
    /\ \A i \in 1..Len(inp[2]) : \A f \in 1..Len(fields) :
          /\ HasKey(out[2][i][2], fields[f][1])
          /\ Get(out[2][i][2], fields[f][1])
                = IF HasKey(inp[2][i][2], fields[f][2])
                  THEN Get(inp[2][i][2], fields[f][2])
                  ELSE fields[f][3]

ContactFields ==
    {<<"first_name", "firstName">>, <<"last_name", "surname">>,
     <<"email", "email">>, <<"phone", "phone">>, <<"location", "address">>}

\* C12: for every parser record, parser_to_generator places
\* contact_info.first_name, last_name, email, phone, location and
\* personal_statement in data.firstName, surname, email, phone, address and
\* profileStatement, copies the skills list verbatim, and maps each list
\* subsection element-wise: the i-th output item is the field-mapped image of
\* the i-th input item, so each output list has the length and order of its
\* input list.
C12_FieldsMapped ==
    ToGenerator =>
        /\ \A p \in ContactFields :
              (/\ HasKey(record[2], "contact_info")
               /\ HasKey(Get(record[2], "contact_info")[2], p[1]))
              => /\ HasKey(GeneratorOut[2], p[2])
                 /\ Get(GeneratorOut[2], p[2])
                       = Get(Get(record[2], "contact_info")[2], p[1])
        /\ HasKey(record[2], "personal_statement") =>
              Get(GeneratorOut[2], "profileStatement")
                 = Get(record[2], "personal_statement")
        /\ HasList(record, "skills") =>
              /\ HasKey(GeneratorOut[2], "skills")
              /\ Get(GeneratorOut[2], "skills") = Get(record[2], "skills")
        /\ \A s \in 1..Len(ParserToGeneratorFields) :
              HasList(record, ParserToGeneratorFields[s][1]) =>
                 /\ HasKey(GeneratorOut[2], ParserToGeneratorFields[s][1])
                 /\ ElementWise(Get(record[2], ParserToGeneratorFields[s][1]),
                                Get(GeneratorOut[2], ParserToGeneratorFields[s][1]),
                                ParserToGeneratorFields[s][2])

\* a record with a full contact block and two different experience items has
\* been converted, the roles coming out in the order of the titles
C12_Witness ==
    /\ ToGenerator
    /\ HasKey(record[2], "contact_info")
    /\ Get(record[2], "contact_info") = FullContact
    /\ HasList(record, "experience")
    /\ HasList(record, "education")
    /\ Len(Get(record[2], "experience")[2]) = 2
    /\ Get(GeneratorOut[2], "firstName") = JStr(sJohn)
    /\ Get(GeneratorOut[2], "address") = JStr(sAcme)
    /\ Get(Get(GeneratorOut[2], "experience")[2][1][2], "role") = JStr(sAcme)
    /\ Get(Get(GeneratorOut[2], "experience")[2][2][2], "role") = JStr(sDoe)

\* the positions of the string links that name one of the words
Naming(links, words) ==
    {i \in 1..Len(links) :
        /\ IsStr(links[i])
        /\ \E w \in words : Contains(Lower(links[i][2]), w)}

\* key of data holds the first link of the positions at, and is absent when
\* there is none
FirstOf(links, at, key) ==
    IF at = {} THEN ~HasKey(GeneratorOut[2], key)
    ELSE /\ HasKey(GeneratorOut[2], key)
         /\ Get(GeneratorOut[2], key)
               = links[CHOOSE i \in at : \A j \in at : i <= j]

\* C13: parser_to_generator assigns to data.linkedin the first element of
\* links[] that contains 'linkedin' (case-insensitively) and to data.website
\* the first element that contains 'github' or 'gitlab'; later links of a
\* category already assigned are dropped (first match wins), and links
\* matching neither are dropped.
C13_FirstMatchWins ==
    ToGenerator /\ HasList(record, "links") =>
        LET links == Get(record[2], "links")[2] IN
        /\ FirstOf(links, Naming(links, {sLinkedin}), "linkedin")
        /\ FirstOf(links, Naming(links, {sGithub, sGitlab}), "website")

\* every item of the list subsections of out carries every mapped key with a
\* value that is not null, the default standing for a field the input item
\* of src lacks
ItemsComplete(src, out, sections) ==
    \A s \in 1..Len(sections) :
        HasKey(out[2], sections[s][1]) =>
            LET inp == Get(src[2], sections[s][1])[2]
                res == Get(out[2], sections[s][1])[2] IN
            \A i \in 1..Len(res) : \A f \in 1..Len(sections[s][2]) :
                LET field == sections[s][2][f] IN
                /\ HasKey(res[i][2], field[1])
                /\ Get(res[i][2], field[1]) # JNull
                /\ ~HasKey(inp[i][2], field[2]) =>
                      Get(res[i][2], field[1]) = field[3]

\* C14: in the output of both adapter functions every item of experience,
\* education, certifications, languages and achievements carries every mapped
\* key and no mapped value is ever null: a field absent from the input item
\* appears as the empty string (false for current / is_current), whatever the
\* input item contains.
C14_ItemsCompleteNeverNull ==
    /\ ToGenerator =>
          ItemsComplete(record, GeneratorOut, ParserToGeneratorFields)
    /\ ToParser =>
          ItemsComplete(Get(record[2], "data"), ParserOut,
                        GeneratorToParserFields)

\* the data mapping of the generator record handed to generator_to_parser
RecordData == PyGet(record, "data", JDict(<<>>))

\* the value of key k of data as a one-element list, or nothing when data
\* has no such value (absent, null or empty)
IfPresent(data, k) ==
    IF HasKey(data[2], k) /\ IsTruthy(Get(data[2], k))
    THEN <<Get(data[2], k)>> ELSE <<>>

\* C15: generator_to_parser produces a links array that consists of
\* data.linkedin followed by data.website, each included only if present;
\* when neither is present the result has no links key at all.
C15_LinksFromLinkedinAndWebsite ==
    ToParser =>
        LET expected == IfPresent(RecordData, "linkedin")
                           \o IfPresent(RecordData, "website") IN
        /\ HasKey(ParserOut[2], "links") =>
              /\ Get(ParserOut[2], "links") = JList(expected)
              /\ expected # <<>>
        /\ expected # <<>> => HasKey(ParserOut[2], "links")
        /\ (~HasKey(RecordData[2], "linkedin")
               /\ ~HasKey(RecordData[2], "website"))
              => ~HasKey(ParserOut[2], "links")

\* a record with both addresses has been converted
C15_Witness ==
    /\ ToParser
    /\ {"linkedin", "website"} \subseteq Keys(RecordData[2])
    /\ Get(RecordData[2], "linkedin") = JStr(sLinkedinA)
    /\ Get(RecordData[2], "website") = JStr(sGithubA)
    /\ HasKey(ParserOut[2], "links")
    /\ Get(ParserOut[2], "links") = JList(<<JStr(sLinkedinA), JStr(sGithubA)>>)

\* generator_to_parser and then parser_to_generator have been applied to a
\* generator record, one whose data is a mapping
RoundTrip ==
    /\ pc = "round_trip"
    /\ IsDict(record) /\ HasKey(record[2], "data")
    /\ IsDict(Get(record[2], "data"))
RestoredData == Get(restored[2][2], "data")

ScalarFields ==
    {"firstName", "surname", "email", "phone", "address", "profileStatement"}

\* key k is in the restored data as it is in the original: absent from both,
\* or present in both with the same value
Reproduced(k) ==
    /\ HasKey(RestoredData[2], k) = HasKey(RecordData[2], k)
    /\ HasKey(RecordData[2], k) =>
          Get(RestoredData[2], k) = Get(RecordData[2], k)

\* C16 as stated: for every generator record (it has at most one linkedin and
\* one website, and no other links), parser_to_generator(generator_to_parser(
\* record)) reproduces data.firstName, surname, email, phone, address,
\* profileStatement, skills, linkedin and website exactly as they are in the
\* original record.
C16_AsStated ==
    RoundTrip =>
        /\ Returned(restored)
        /\ HasKey(restored[2][2], "data")
        /\ \A k \in ScalarFields \cup {"skills", "linkedin", "website"} :
              Reproduced(k)

\* the value of key k of data is absent, or a string naming one of the words
\* and none of the words of the other category
Recognised(data, k, words, others) ==
    HasKey(data[2], k) =>
        /\ IsStr(Get(data[2], k))
        /\ \E w \in words : Contains(Lower(Get(data[2], k)[2]), w)
        /\ \A w \in others : ~Contains(Lower(Get(data[2], k)[2]), w)

\* C16, amended: the round trip reproduces each of the six scalar fields that
\* the record carries (one it lacks comes back as the empty string), skills
\* when it is a list or absent, and linkedin and website when each is absent
\* or a string the links heuristic recognises (linkedin naming 'linkedin',
\* website naming 'github' or 'gitlab' and not 'linkedin').
C16_RoundTripWhereRecognised ==
    RoundTrip =>
        /\ Returned(restored)
        /\ HasKey(restored[2][2], "data")
        /\ \A k \in ScalarFields :
              /\ HasKey(RestoredData[2], k)
              /\ Get(RestoredData[2], k)
                    = IF HasKey(RecordData[2], k) THEN Get(RecordData[2], k)
                      ELSE EmptyStr
        /\ (HasKey(RecordData[2], "skills") => HasList(RecordData, "skills"))
              => Reproduced("skills")
        /\ (/\ Recognised(RecordData, "linkedin", {sLinkedin}, {})
            /\ Recognised(RecordData, "website", {sGithub, sGitlab}, {sLinkedin}))
              => Reproduced("linkedin") /\ Reproduced("website")

\* a record with all nine fields, its addresses in mixed case, has come back
\* from the round trip
C16_Witness ==
    /\ RoundTrip /\ Returned(restored)
    /\ ScalarFields \cup {"skills", "linkedin", "website"}
          \subseteq Keys(RecordData[2])
    /\ Get(RecordData[2], "linkedin") = JStr(sLinkedInB)
    /\ Get(RecordData[2], "website") = JStr(sGitLabB)
    /\ Get(RestoredData[2], "linkedin") = JStr(sLinkedInB)
    /\ Get(RestoredData[2], "website") = JStr(sGitLabB)
    /\ Get(RestoredData[2], "skills") = Skills
    /\ Get(RestoredData[2], "email") = JStr(sEmail)

\* v is None, an empty mapping, or not a mapping
NoRecord(v) == v = JNull \/ v = JDict(<<>>) \/ ~IsDict(v)

\* C17: both adapter functions return the empty mapping for every input that
\* is None, an empty mapping, or not a mapping.
C17_EmptyForNoRecord ==
    /\ (pc \in {"to_generator", "to_parser", "round_trip"} /\ NoRecord(record))
          => converted = Return(JDict(<<>>))
    /\ (pc = "round_trip" /\ NoRecord(converted[2]))
          => restored = Return(JDict(<<>>))

\* generator_to_parser was given a list and parser_to_generator the empty
\* mapping that came back
C17_Witness ==
    /\ pc = "round_trip"
    /\ record = JList(<<FullContact>>)
    /\ converted = Return(JDict(<<>>))
    /\ restored = Return(JDict(<<>>))

\* C18: the adapter functions are total: for every input mapping, whatever
\* the types of its nested values (contact_info or data null or not a
\* mapping, list subsections holding items that are no mappings, fields of
\* unexpected type), they return a result and never raise.
C18_NeverRaises ==
    (pc \in {"to_generator", "to_parser"} /\ IsDict(record))
        => Returned(converted)

-----------------------------------------------------------------------------
(* main.py: the HTTP handlers generate_cv and parse_and_generate_cv        *)
(* A handler run yields the calls it made on its collaborators, in order,  *)
(* each with its outcome, the response, and the output format it settled   *)
(* on.  The collaborators' outcomes are inputs of the run.                 *)

sTrue == <<"t", "r", "u", "e">>
sFalse == <<"f", "a", "l", "s", "e">>
sBearer == <<"b", "e", "a", "r", "e", "r">>

Call(name, outcome) == <<name, outcome>>
Answer(status, body) == Return(<<status, body>>)
\* an answer whose message carries the text of the exception caught
Failure(status, body, cause) == Return(<<status, body, cause>>)
Run(c, r, f) ==
    [calls |-> c, response |-> r, output_format |-> f,
     template_context |-> NoOutcome, blob |-> NoOutcome]
\* the run in which that context was handed to the renderer
Handed(run, ctx) == [run EXCEPT !.template_context = ctx]
\* the run in which the document was uploaded under that name
Uploaded(run, name) == [run EXCEPT !.blob = name]

\* os.environ.get(name, default).lower() == "true"
EnvIsTrue(value, default) ==
    Lower(IF value = JNull THEN default ELSE value[2]) = sTrue

\* security.py: extract_token_from_header; the header is None or the list
\* of the words of its text (auth_header.split(), empty for an empty text)
extract_token_from_header(auth_header) ==
    IF ~IsTruthy(auth_header) THEN JNull
    ELSE IF \/ Len(auth_header[2]) # 2
            \/ Lower(auth_header[2][1][2]) # sBearer THEN JNull
    ELSE auth_header[2][2]

\* security.py: validate_supabase_jwt raises ValueError but for a token that
\* decodes, has not expired and carries a subject
sGoodToken == <<"o", "k">>
TokenValid(token) == token = JStr(sGoodToken)

\* mutant: the token of a well-formed header is not validated
MutAuthenticate(req, env) ==
    IF ~(EnvIsTrue(env.REQUIRE_AUTHENTICATION, sTrue)
            /\ ~EnvIsTrue(env.TESTING, sFalse))
    THEN <<<<>>, JNull>>
    ELSE IF ~IsTruthy(req.authorization)
    THEN <<<<>>, Answer(401, "Authentication required")>>
    ELSE IF extract_token_from_header(req.authorization) = JNull
    THEN <<<<>>, Answer(401, "Invalid authorization header format")>>
    ELSE <<<<>>, JNull>>
\* the authentication block of the handlers: the calls made, and the 401
\* answer, or null when the request may proceed
Authenticate(req, env) ==
    IF ~(EnvIsTrue(env.REQUIRE_AUTHENTICATION, sTrue)
            /\ ~EnvIsTrue(env.TESTING, sFalse))
    THEN <<<<>>, JNull>>
    ELSE IF ~IsTruthy(req.authorization)
    THEN <<<<>>, Answer(401, "Authentication required")>>
    ELSE IF extract_token_from_header(req.authorization) = JNull
    THEN <<<<>>, Answer(401, "Invalid authorization header format")>>
    ELSE IF ~TokenValid(extract_token_from_header(req.authorization))
    THEN << <<Call("validate_supabase_jwt", "raise")>>,
            Answer(401, "Invalid authentication token") >>
    ELSE << <<Call("validate_supabase_jwt", "ok")>>, JNull >>

\* html.escape(text)
HtmlEscapeChar(c) ==
    CASE c = "&" -> <<"&", "a", "m", "p", ";">>
      [] c = "<" -> <<"&", "l", "t", ";">>
      [] c = ">" -> <<"&", "g", "t", ";">>
      [] c = "\"" -> <<"&", "q", "u", "o", "t", ";">>
      [] c = "'" -> <<"&", "#", "x", "2", "7", ";">>
      [] OTHER -> <<c>>
RECURSIVE HtmlEscape(_)
HtmlEscape(s) ==
    IF s = <<>> THEN <<>> ELSE HtmlEscapeChar(Head(s)) \o HtmlEscape(Tail(s))

RECURSIVE escape_ampersands(_)
escape_ampersands(data) ==
    CASE IsDict(data) ->
            JDict([i \in 1..Len(data[2]) |->
                      <<data[2][i][1], escape_ampersands(data[2][i][2])>>])
      [] IsList(data) ->
            JList([i \in 1..Len(data[2]) |-> escape_ampersands(data[2][i])])
      [] IsStr(data) -> JStr(HtmlEscape(data[2]))
      [] OTHER -> data

\* generate_filename: request['data']['firstName'] and ['surname'] must be
\* there (KeyError otherwise); data is a mapping once validation has passed
FilenameRaises(request_data) ==
    LET data == Get(request_data[2], "data") IN
    ~(HasKey(data[2], "firstName") /\ HasKey(data[2], "surname"))

\* the value pydantic gives is_anonymized: Optional[bool] = False
IsAnonymized(model) ==
    LET v == PyGet(model, "is_anonymized", JBool(FALSE)) IN
    CASE IsBool(v) -> v[2]
      [] IsInt(v) -> v[2] = 1
      [] IsStr(v) -> Lower(v[2]) \in {<<"1">>, <<"o", "n">>, <<"t">>, sTrue,
                                      <<"y">>, <<"y", "e", "s">>}
      [] OTHER -> FALSE

\* prepare_template_context(body, ...) raises (anonymizing a name that is
\* no string); the options do not bear on it
ContextRaises(body, anonymize) ==
    LET stored == Store(<<>>, body) IN
    Raised(prepare_template_context(stored[1], stored[2], JNull, JNull,
                                    anonymize)[2])

\* generate_filename(request, filetype) at the second `now`: the two names,
\* the time and the extension
generate_filename(request_data, filetype, now) ==
    LET data == Get(request_data[2], "data") IN
    <<Get(data[2], "firstName"), Get(data[2], "surname"), now, filetype>>

\* the value pydantic's lax bool gives (None stays None)
CoerceBool(v) ==
    CASE IsBool(v) -> v
      [] IsInt(v) -> JBool(v[2] = 1)
      [] IsStr(v) -> JBool(Lower(v[2]) \in {<<"1">>, <<"o", "n">>, <<"t">>, sTrue,
                                            <<"y">>, <<"y", "e", "s">>})
      [] OTHER -> v

\* mutant: the dump of a SectionVisibility built from nothing
MutModelDump(v) ==
    JDict([i \in 1..Len(SectionVisibility) |->
             <<SectionVisibility[i][1], JBool(TRUE)>>])
\* SectionVisibility.model_dump(): every declared field, with the value
\* validated from v or its default True
model_dump(v) ==
    JDict([i \in 1..Len(SectionVisibility) |->
             <<SectionVisibility[i][1],
               IF HasKey(v[2], SectionVisibility[i][1])
               THEN CoerceBool(Get(v[2], SectionVisibility[i][1]))
               ELSE JBool(TRUE)>>])

\* req_model.section_visibility.model_dump() if req_model.section_visibility
\* else None
VisibilityArgument(model) ==
    LET v == PyGet(model, "section_visibility", JNull) IN
    IF IsDict(v) THEN model_dump(v) ELSE JNull

\* the value of prepare_template_context(body, req_model.section_order,
\* <the visibility argument>, req_model.is_anonymized), or what it raises
TemplateContext(body, model) ==
    LET stored == Store(<<>>, body)
        order == Store(stored[1], PyGet(model, "section_order", JNull))
        visibility == Store(order[1], VisibilityArgument(model))
        prepared == prepare_template_context(visibility[1], stored[2], order[2],
                                             visibility[2], IsAnonymized(model))
    IN IF Raised(prepared[2]) THEN prepared[2]
       ELSE Return(Deref(prepared[1], prepared[2][2]))

\* mutant: the document is converted whatever the format
MutRender(sofar, body, model, format, ok, render_ok, pdf, now) ==
    Uploaded(Handed(Run(sofar \o <<Call("retrieve_file_from_storage", "ok"),
                                   Call("generate_cv_from_template", "ok"),
                                   Call("docx_to_pdf", "ok"),
                                   Call("upload_cv_to_storage", "ok"),
                                   Call("generate_cv_download_link", "ok")>>,
                        Answer(200, ok), format),
                    TemplateContext(body, model)),
             generate_filename(body, sPdf, now))
\* mutant: the document is uploaded although its conversion failed
MutConverted(run, name, pdf) ==
    Uploaded([run EXCEPT !.calls = Append(@, Call("upload_cv_to_storage", "ok"))],
             name)
\* the `except Exception` of the conversion: 500 with the text of the
\* exception, and nothing more is done
Converted(run, name, pdf) ==
    [run EXCEPT !.response = Failure(500, "Error converting to PDF", pdf)]
\* the tail of the handlers once prepare_template_context has been called:
\* calls so far, the record rendered, the output format, the body of the 200
\* answer, whether the renderer succeeds, what the converter does ("ok" or
\* the text of its exception), the time, and the outcome of
\* prepare_template_context
RenderContext(sofar, body, format, ok, render_ok, pdf, now, ctx) ==
    IF Raised(ctx) THEN Run(sofar, Raise("TypeError"), format)
    ELSE LET fetched == Append(sofar, Call("retrieve_file_from_storage", "ok")) IN
    IF ~render_ok
    THEN Handed(Run(Append(fetched, Call("generate_cv_from_template", "raise")),
                    Raise("Exception"), format), ctx)
    ELSE LET rendered ==
                 Append(fetched, Call("generate_cv_from_template", "ok")) IN
    IF format = JStr(sPdf) /\ pdf # "ok"
    THEN Converted(Handed(Run(Append(rendered, Call("docx_to_pdf", pdf)),
                              NoOutcome, format), ctx),
                   IF FilenameRaises(body) THEN NoOutcome
                   ELSE generate_filename(body, sPdf, now),
                   pdf)
    ELSE IF format = JStr(sPdf) /\ FilenameRaises(body)
    THEN Handed(Run(Append(rendered, Call("docx_to_pdf", "ok")),
                    Failure(500, "Error converting to PDF", "KeyError"), format),
                ctx)
    ELSE IF FilenameRaises(body)
    THEN Handed(Run(rendered, Raise("KeyError"), format), ctx)
    ELSE Uploaded(Handed(
             Run((IF format = JStr(sPdf)
                  THEN Append(rendered, Call("docx_to_pdf", "ok")) ELSE rendered)
                    \o <<Call("upload_cv_to_storage", "ok"),
                         Call("generate_cv_download_link", "ok")>>,
                 Answer(200, ok), format), ctx),
             generate_filename(body, IF format = JStr(sPdf) THEN sPdf ELSE sDocx,
                               now))

\* the common tail of the handlers, from prepare_template_context to the
\* answer: calls so far, the record rendered, its model, the output format,
\* the body of the 200 answer, whether the renderer succeeds, what the
\* converter does and the time
Render(sofar, body, model, format, ok, render_ok, pdf, now) ==
    RenderContext(sofar, body, format, ok, render_ok, pdf, now,
                  TemplateContext(body, model))

\* output_format = req_model.output_format or req_json.get('outputFormat', 'docx')
OutputFormat(model, req_json) ==
    IF IsTruthy(PyGet(model, "output_format", JNull))
    THEN Get(model[2], "output_format")
    ELSE PyGet(req_json, "outputFormat", JStr(sDocx))

\* mutant: only the presence of a data object is looked at
MutRequestValid(request_data) ==
    /\ IsDict(request_data) /\ HasKey(request_data[2], "data")
    /\ IsDict(Get(request_data[2], "data"))
\* `if not validation.validate_request(...)`: the request passes validation
RequestValid(request_data) == validate_request(request_data) = Return(TRUE)

\* generate_cv(request), given whether the renderer and the converter succeed
generate_cv(req, env, render_ok, pdf, now) ==
    IF req.method = "OPTIONS" THEN Run(<<>>, Answer(204, ""), NoOutcome)
    ELSE LET auth == Authenticate(req, env) IN
    IF auth[2] # JNull THEN Run(auth[1], auth[2], NoOutcome)
    ELSE LET req_json == escape_ampersands(req.json)
             read == auth[1] \o <<Call("retrieve_profile_config", "ok"),
                                  Call("get_json", "ok"),
                                  Call("retrieve_file_from_storage", "ok")>> IN
    IF ~RequestValid(req_json)
    THEN Run(read, Answer(400, "Please pass a valid JSON object in the body"),
             NoOutcome)
    ELSE LET req_model == transform_request_keys(req_json)[2] IN
         Render(read, req_json, req_model, OutputFormat(req_model, req_json),
                "url", render_ok, pdf, now)

\* generator_data as parse_and_generate_cv completes it with the request's
\* own options
WithOptions(generator_data, req_json) ==
    LET copied(items, key) ==
            IF HasKey(req_json[2], key)
            THEN DictSet(items, key, Get(req_json[2], key)) ELSE items
        g1 == copied(generator_data[2], "recruiterProfile")
        g2 == IF IsTruthy(PyGet(req_json, "template", JNull))
              THEN DictSet(g1, "template", Get(req_json[2], "template")) ELSE g1
        g3 == DictSet(g2, "outputFormat",
                      PyGet(req_json, "outputFormat", JStr(sDocx)))
        g4 == copied(copied(g3, "sectionOrder"), "sectionVisibility")
    IN JDict(IF IsTruthy(PyGet(req_json, "isAnonymized", JNull))
             THEN DictSet(g4, "isAnonymized", JBool(TRUE)) ELSE g4)

\* `except Exception as e`: 500 with the text of the exception
Caught(run) ==
    IF Raised(run.response)
    THEN [run EXCEPT !.response = Answer(500, run.response[2])]
    ELSE run

\* parse_and_generate_cv(request), given the parser's reply and whether the
\* renderer and the converter succeed
parse_and_generate_cv(req, env, reply, render_ok, pdf, now) ==
    IF req.method = "OPTIONS" THEN Run(<<>>, Answer(204, ""), NoOutcome)
    ELSE LET auth == Authenticate(req, env) IN
    IF auth[2] # JNull THEN Run(auth[1], auth[2], NoOutcome)
    ELSE LET req_json == req.json
             read == Append(auth[1], Call("get_json", "ok")) IN
    IF IsTruthy(req_json) /\ (IsInt(req_json) \/ IsBool(req_json))
    THEN Run(read, Answer(500, "TypeError"), NoOutcome)
    ELSE IF \/ ~IsTruthy(req_json) \/ ~IsDict(req_json)
            \/ ~HasKey(req_json[2], "fileContent")
            \/ ~HasKey(req_json[2], "fileName")
    THEN Run(read, Answer(400, "No CV file content provided"), NoOutcome)
    ELSE IF Raised(reply)
    THEN Run(Append(read, Call("parse_cv", "raise")),
             Answer(500, reply[2]), NoOutcome)
    ELSE LET parsed == Append(read, Call("parse_cv", "ok")) IN
    IF HasKey(reply[2][2], "error")
    THEN Run(parsed, Answer(400, "error"), NoOutcome)
    ELSE IF Raised(parser_to_generator(reply[2]))
    THEN Run(parsed, Answer(500, "AttributeError"), NoOutcome)
    ELSE LET generator_data ==
                 WithOptions(parser_to_generator(reply[2])[2], req_json)
             checked == parsed \o
                 <<Call("retrieve_profile_config", "ok"),
                   Call("retrieve_file_from_storage", "ok")>> IN
    IF ~RequestValid(generator_data)
    THEN Run(checked, Answer(400, "Converted CV data validation failed"),
             Get(generator_data[2], "outputFormat"))
    ELSE Caught(Render(checked, generator_data,
                       transform_request_keys(generator_data)[2],
                       Get(generator_data[2], "outputFormat"),
                       "document_url", render_ok, pdf, now))

\* parse_cv(request), given the parser's reply
parse_cv(req, env, reply) ==
    IF req.method = "OPTIONS" THEN Run(<<>>, Answer(204, ""), NoOutcome)
    ELSE LET auth == Authenticate(req, env) IN
    IF auth[2] # JNull THEN Run(auth[1], auth[2], NoOutcome)
    ELSE LET req_json == req.json
             read == Append(auth[1], Call("get_json", "ok")) IN
    IF IsTruthy(req_json) /\ (IsInt(req_json) \/ IsBool(req_json))
    THEN Run(read, Answer(500, "TypeError"), NoOutcome)
    ELSE IF \/ ~IsTruthy(req_json) \/ ~IsDict(req_json)
            \/ ~HasKey(req_json[2], "fileContent")
            \/ ~HasKey(req_json[2], "fileName")
    THEN Run(read, Answer(400, "No CV file content provided"), NoOutcome)
    ELSE IF Raised(reply)
    THEN Run(Append(read, Call("parse_cv", "raise")),
             Failure(500, "Error processing CV", reply[2]), NoOutcome)
    ELSE LET parsed == Append(read, Call("parse_cv", "ok")) IN
    IF HasKey(reply[2][2], "error")
    THEN Run(parsed, Answer(400, "error"), NoOutcome)
    ELSE IF Raised(parser_to_generator(reply[2]))
    THEN Run(parsed, Failure(500, "Error processing CV", "AttributeError"),
             NoOutcome)
    ELSE Run(parsed, Answer(200, "parsedData"), NoOutcome)

-----------------------------------------------------------------------------
(* The requests the handlers receive *)

sAmpersand == <<"A", "&", "B">>

\* the words of the Authorization header, or null when there is none
Authorizations ==
    {JNull,
     JList(<<>>),
     JList(<<JStr(<<"B", "e", "a", "r", "e", "r">>)>>),
     JList(<<JStr(<<"B", "a", "s", "i", "c">>), JStr(sAcme)>>),
     JList(<<JStr(<<"B", "e", "a", "r", "e", "r">>), JStr(sDoe)>>),
     JList(<<JStr(<<"B", "e", "a", "r", "e", "r">>), JStr(sGoodToken)>>)}

Environments ==
    {[REQUIRE_AUTHENTICATION |-> JNull, TESTING |-> JNull],
     [REQUIRE_AUTHENTICATION |-> JStr(<<"F", "a", "l", "s", "e">>), TESTING |-> JNull],
     [REQUIRE_AUTHENTICATION |-> JStr(sTrue), TESTING |-> JStr(<<"T", "r", "u", "e">>)]}

Bodies ==
    {JNull, JList(<<>>)} \cup
    {JDict(b) : b \in
        DictsOver(<< <<"data",
                       {GoodData, NoSurname, JNull,
                        JDict(<< <<"first_name", JStr(sJohn)>>,
                                 <<"surname", JStr(sDoe)>> >>),
                        JDict(<< <<"firstName", JInt(1)>>,
                                 <<"first_name", JStr(sAmpersand)>>,
                                 <<"surname", JStr(sDoe)>> >>)}>>,
                     <<"outputFormat", {JStr(sPdf), JStr(sDocx), JStr(sTxt), JNull}>>,
                     <<"output_format", {JStr(sPdf), JStr(sDoc)}>>,
                     <<"isAnonymized", {JBool(TRUE)}>>,
                     <<"fileContent", {JStr(sAcme)}>>,
                     <<"fileName", {JStr(sAcme)}>> >>)}

PdfBody ==
    JDict(<< <<"data", GoodData>>, <<"outputFormat", JStr(sPdf)>>,
             <<"fileContent", JStr(sAcme)>>, <<"fileName", JStr(sAcme)>> >>)

sFalseText == <<"f", "a", "l", "s", "e">>

\* what a request gives as sectionVisibility: sections set to booleans, to
\* values pydantic coerces and to null, a section set under both spellings
\* of its name, and a key that names no section
VisibilityValues ==
    {JDict(v) : v \in
        DictsOver(<< <<"education", {JBool(FALSE), JStr(sFalseText), JNull}>>,
                     <<"profile_statement", {JBool(TRUE)}>>,
                     <<"profileStatement", {JBool(FALSE)}>>,
                     <<"personalInfo", {JBool(FALSE)}>> >>)}

\* valid requests with section options
VisibilityBodies ==
    {JDict(<< <<"data", GoodData>> >> \o b) : b \in
        DictsOver(<< <<"sectionVisibility", VisibilityValues \cup {JNull}>>,
                     <<"section_visibility",
                       {JDict(<< <<"education", JBool(TRUE)>> >>)}>>,
                     <<"sectionOrder", {JList(<<JStr(sAcme)>>)}>>,
                     <<"isAnonymized", {JBool(TRUE)}>> >>)}

\* every kind of header under every setting of the switches, on two bodies;
\* and every body under a good header and the default switches
HandlerInputs ==
    ([method : {"POST", "OPTIONS"}, authorization : Authorizations,
      json : {JNull, PdfBody}] \X Environments)
    \cup ([method : {"POST"},
           authorization : {JList(<<JStr(sBearer), JStr(sGoodToken)>>)},
           json : Bodies \cup VisibilityBodies]
          \X {[REQUIRE_AUTHENTICATION |-> JNull, TESTING |-> JNull]})

\* what the parser service answers: a record, a record the adapter cannot
\* take, an empty record, an error report, or no answer at all
ParserReplies ==
    {Return(JDict(<< <<"contact_info", FullContact>>,
                     <<"experience",
                       JList(<<JDict(<< <<"title", JStr(sAcme)>> >>)>>)>> >>)),
     Return(JDict(<< <<"contact_info", JNull>> >>)),
     Return(JDict(<< <<"skills", Skills>> >>)),
     Return(JDict(<< <<"error", JStr(sAcme)>> >>)),
     Raise("Exception")}

\* what client.docx_to_pdf does for the handler: "ok", or the text of the
\* exception it raises
Conversions == {"ok", "Request timed out", "PDF conversion failed: 500"}

InitHandler ==
    /\ \E input \in HandlerInputs :
          /\ http = input[1]
          /\ environ = input[2]
    /\ parse_result = NoOutcome
    /\ calls = <<>>
    /\ response = NoOutcome
    /\ output_format = NoOutcome
    /\ template_context = NoOutcome
    /\ blob = NoOutcome
    /\ pc = "start"
    /\ request = JNull
    /\ result = NoOutcome
    /\ transformed = NoOutcome
    /\ transformed2 = NoOutcome
    /\ heap = <<>>
    /\ req_body = JNull
    /\ section_order = JNull
    /\ section_visibility = JNull
    /\ is_anonymized = FALSE
    /\ context = NoOutcome
    /\ AdapterIdle
    /\ ClientIdle
    /\ StorageIdle

\* one request handled by generate_cv
GenerateCv ==
    /\ pc = "start"
    /\ \E render_ok \in BOOLEAN, pdf \in Conversions :
       \E run \in {generate_cv(http, environ, render_ok, pdf, clock)} :
          /\ calls' = run.calls
          /\ response' = run.response
          /\ output_format' = run.output_format
          /\ template_context' = run.template_context
          /\ blob' = run.blob
    /\ pc' = "generate_cv"
    /\ UNCHANGED <<clientVars, storageVars, request, validationVars, contextVars, adapterVars, http,
                   environ, parse_result>>

\* one request handled by parse_and_generate_cv
ParseAndGenerateCv ==
    /\ pc = "start"
    /\ \E reply \in ParserReplies, render_ok \in BOOLEAN, pdf \in Conversions :
       \E run \in {parse_and_generate_cv(http, environ, reply,
                                         render_ok, pdf, clock)} :
          /\ calls' = run.calls
          /\ response' = run.response
          /\ output_format' = run.output_format
          /\ template_context' = run.template_context
          /\ blob' = run.blob
          /\ parse_result' =
                IF \E i \in 1..Len(run.calls) : run.calls[i][1] = "parse_cv"
                THEN reply ELSE NoOutcome
    /\ pc' = "parse_and_generate_cv"
    /\ UNCHANGED <<clientVars, storageVars, request, validationVars, contextVars, adapterVars, http,
                   environ>>

\* one request handled by parse_cv
ParseCv ==
    /\ pc = "start"
    /\ \E reply \in ParserReplies :
          LET run == parse_cv(http, environ, reply) IN
          /\ calls' = run.calls
          /\ response' = run.response
          /\ output_format' = run.output_format
          /\ template_context' = run.template_context
          /\ blob' = run.blob
          /\ parse_result' =
                IF \E i \in 1..Len(run.calls) : run.calls[i][1] = "parse_cv"
                THEN reply ELSE NoOutcome
    /\ pc' = "parse_cv"
    /\ UNCHANGED <<clientVars, storageVars, request, validationVars,
                   contextVars, adapterVars, http, environ>>

NextHandler == GenerateCv \/ ParseAndGenerateCv \/ ParseCv

SpecHandler == InitHandler /\ [][NextHandler]_vars

-----------------------------------------------------------------------------
(* Claims about the handlers (specification SpecHandler)                   *)

\* the handler made a call of that name on a collaborator
Called(name) == \E i \in 1..Len(calls) : calls[i][1] = name
TimesCalled(name) == Cardinality({i \in 1..Len(calls) : calls[i][1] = name})

\* C19: when validation of the request fails, generate_cv answers 400 with an
\* error body, and for that request the template renderer, the PDF converter,
\* the storage upload and the signed-URL generation are never called.
C19_InvalidRequestStopsAt400 ==
    (/\ pc = "generate_cv"
     /\ Called("get_json")
     /\ validate_request(http.json) # Return(TRUE))
    => /\ response = Answer(400, "Please pass a valid JSON object in the body")
       /\ ~Called("generate_cv_from_template")
       /\ ~Called("docx_to_pdf")
       /\ ~Called("upload_cv_to_storage")
       /\ ~Called("generate_cv_download_link")

\* generate_cv has answered 400 to an authenticated request for a PDF whose
\* data has no surname
C19_Witness ==
    /\ pc = "generate_cv"
    /\ Called("get_json")
    /\ IsDict(http.json)
    /\ HasKey(http.json[2], "data") /\ Get(http.json[2], "data") = NoSurname
    /\ HasKey(http.json[2], "outputFormat")
    /\ Get(http.json[2], "outputFormat") = JStr(sPdf)
    /\ response = Answer(400, "Please pass a valid JSON object in the body")
    /\ ~Called("docx_to_pdf")

\* C20: in generate_cv and parse_and_generate_cv the DOCX-to-PDF converter is
\* invoked exactly once when the output format of the request, as the handler
\* reads it, is 'pdf' and the document has been rendered, and it is never
\* invoked for a request with any other output format or with none.
C20_ConvertedOnlyForPdf ==
    pc \in {"generate_cv", "parse_and_generate_cv"} =>
        /\ TimesCalled("docx_to_pdf") <= 1
        /\ output_format # JStr(sPdf) => ~Called("docx_to_pdf")
        /\ (/\ output_format = JStr(sPdf)
            /\ \E i \in 1..Len(calls) :
                  calls[i] = Call("generate_cv_from_template", "ok"))
              => TimesCalled("docx_to_pdf") = 1

\* parse_and_generate_cv has answered 200 to a request for a PDF, the
\* converter called once, after the renderer and before the upload
C20_Witness ==
    /\ pc = "parse_and_generate_cv"
    /\ output_format = JStr(sPdf)
    /\ Get(http.json[2], "outputFormat") = JStr(sPdf)
    /\ response = Answer(200, "document_url")
    /\ TimesCalled("docx_to_pdf") = 1
    /\ \E i \in 2..(Len(calls) - 1) :
          /\ calls[i - 1] = Call("generate_cv_from_template", "ok")
          /\ calls[i] = Call("docx_to_pdf", "ok")
          /\ calls[i + 1] = Call("upload_cv_to_storage", "ok")


\* the text of the exception the converter raised, if it was called and failed
ConversionFailed(cause) ==
    \E i \in 1..Len(calls) :
        calls[i][1] = "docx_to_pdf" /\ calls[i][2] = cause /\ cause # "ok"

\* C21: when the PDF conversion fails during generate_cv, the response is 500
\* with an error message that carries the cause, and for that request no
\* document is uploaded to storage and no download URL is issued.
C21_ConversionFailureIs500 ==
    \A cause \in Conversions :
        (pc = "generate_cv" /\ ConversionFailed(cause))
        => /\ response = Failure(500, "Error converting to PDF", cause)
           /\ ~Called("upload_cv_to_storage")
           /\ ~Called("generate_cv_download_link")
           /\ blob = NoOutcome

\* generate_cv has rendered the document of a valid request for a PDF, the
\* converter has timed out and the answer is 500 with that text
C21_Witness ==
    /\ pc = "generate_cv"
    /\ http.json = PdfBody
    /\ \E i \in 2..Len(calls) :
          /\ calls[i - 1] = Call("generate_cv_from_template", "ok")
          /\ calls[i] = Call("docx_to_pdf", "Request timed out")
    /\ response = Failure(500, "Error converting to PDF", "Request timed out")
    /\ template_context # NoOutcome


\* authentication is required and the TESTING switch is off
AuthenticationEnforced ==
    /\ \/ environ.REQUIRE_AUTHENTICATION = JNull
       \/ Lower(environ.REQUIRE_AUTHENTICATION[2]) = sTrue
    /\ environ.TESTING # JNull => Lower(environ.TESTING[2]) # sTrue

\* the Authorization header is missing, is not of the form 'Bearer <token>'
\* (the scheme in any case), or carries a token that fails validation
HeaderRefused ==
    \/ http.authorization = JNull
    \/ Len(http.authorization[2]) # 2
    \/ Lower(http.authorization[2][1][2]) # <<"b", "e", "a", "r", "e", "r">>
    \/ http.authorization[2][2] # JStr(sGoodToken)

\* C22: when authentication is required and the TESTING switch is off,
\* generate_cv, parse_cv and parse_and_generate_cv answer 401 to every
\* non-OPTIONS request whose Authorization header is missing, is not of the
\* form 'Bearer <token>', or carries a token that fails validation, before
\* the request body is read and before the profile is retrieved, the parser
\* is called, or anything is rendered, converted or uploaded.
C22_UnauthenticatedIs401 ==
    (/\ pc \in {"generate_cv", "parse_cv", "parse_and_generate_cv"}
     /\ http.method # "OPTIONS"
     /\ AuthenticationEnforced
     /\ HeaderRefused)
    => /\ Returned(response) /\ response[2][1] = 401
       /\ \A name \in {"get_json", "retrieve_profile_config",
                       "retrieve_file_from_storage", "parse_cv",
                       "generate_cv_from_template", "docx_to_pdf",
                       "upload_cv_to_storage", "generate_cv_download_link"} :
             ~Called(name)
       /\ template_context = NoOutcome
       /\ blob = NoOutcome

\* parse_cv has answered 401 to a POST with a valid body whose bearer token
\* failed validation
C22_Witness ==
    /\ pc = "parse_cv"
    /\ http.method = "POST"
    /\ http.json = PdfBody
    /\ AuthenticationEnforced
    /\ http.authorization =
          JList(<<JStr(<<"B", "e", "a", "r", "e", "r">>), JStr(sDoe)>>)
    /\ calls = <<Call("validate_supabase_jwt", "raise")>>
    /\ response = Answer(401, "Invalid authentication token")


-----------------------------------------------------------------------------
(* utils/client.py: HireableClient.docx_to_pdf.  An exception is            *)
(* <<type, message>>, a response <<"response", status code>>                *)

sDocumentDocx ==
    <<"d", "o", "c", "u", "m", "e", "n", "t", ".", "d", "o", "c", "x">>

\* os.path.splitext(name)[1]: from the last dot on, unless only dots come
\* before it
splitext(name) ==
    LET dots == {i \in 1..Len(name) : name[i] = "."} IN
    IF dots = {} THEN <<>>
    ELSE LET last == CHOOSE i \in dots : \A j \in dots : j <= i IN
         IF \A j \in 1..(last - 1) : name[j] = "." THEN <<>>
         ELSE SubSeq(name, last, Len(name))

\* ['.docx', '.doc', '.rtf']
ConvertibleTypes ==
    {<<".", "d", "o", "c", "x">>, <<".", "d", "o", "c">>, <<".", "r", "t", "f">>}

\* 10 * 1024 * 1024
MaxFileSize == 10 * 1024 * 1024

\* mutant: an answer that is not 200 is tried again as well
MutTransient(outcome) == outcome # <<"response", "200">>
\* except (requests.Timeout, requests.ConnectionError)
Transient(outcome) == outcome[1] \in {"Timeout", "ConnectionError"}

\* mutant: the first error is the one remembered
MutRemember(last, e) == IF last = JNull THEN e ELSE last
\* last_error = e
Remember(last, e) == e


\* the checks before the first attempt (lines 59-77): <<the file after them,
\* what they raise>>, NoOutcome when the call goes on
CheckFile(f) ==
    IF ~f.given THEN <<f, Raise(<<"ValueError", "No file provided">>)>>
    ELSE LET named == IF f.named THEN f
                      ELSE [f EXCEPT !.named = TRUE, !.name = sDocumentDocx] IN
    IF splitext(Lower(named.name)) \notin ConvertibleTypes
    THEN <<named, Raise(<<"ValueError", "Invalid file type">>)>>
    ELSE IF named.closed
    THEN <<named, Raise(<<"ValueError", "I/O operation on closed file">>)>>
    ELSE IF named.size > MaxFileSize
    THEN <<[named EXCEPT !.position = 0],
           Raise(<<"ValueError", "File too large. Maximum size is 10MB">>)>>
    ELSE <<[named EXCEPT !.position = 0], NoOutcome>>

\* raise Exception(error_msg) for an answer whose status is not 200
StatusError(status) ==
    <<"Exception",
      CASE status = "400" -> "PDF conversion failed: 400"
        [] status = "500" -> "PDF conversion failed: 500"
        [] OTHER -> "PDF conversion failed">>

-----------------------------------------------------------------------------
(* The calls of docx_to_pdf *)

MaxRetries == 3

FileNames ==
    {<<>>, <<"a">>, <<"a", ".", "d", "o", "c", "x">>, <<"a", ".", "D", "O", "C">>,
     <<"a", ".", "p", "d", "f">>}

FileSizes == {0, 1, MaxFileSize, MaxFileSize + 1}

\* no file, or a file object: with or without a name attribute, open or
\* closed, read position at the start or at the end
Files ==
    {NoFile} \cup
    {f \in [given : {TRUE}, named : BOOLEAN, name : FileNames, size : FileSizes,
            position : {0, 1, MaxFileSize, MaxFileSize + 1}, closed : BOOLEAN] :
        /\ ~f.named => f.name = <<>>
        /\ f.position \in {0, f.size}}

\* how one requests.post ends: an answer, or an exception
PostOutcomes ==
    {<<"response", "200">>, <<"response", "500">>,
     <<"Timeout", "Request timed out">>,
     <<"ConnectionError", "Connection error">>,
     <<"RequestException", "Invalid URL">>}

InitClient ==
    /\ file \in Files
    /\ max_retries \in 0..MaxRetries
    /\ retry_count = 0
    /\ last_error = JNull
    /\ posts = <<>>
    /\ pdf_response = NoOutcome
    /\ pc = "start"
    /\ request = JNull
    /\ result = NoOutcome
    /\ transformed = NoOutcome
    /\ transformed2 = NoOutcome
    /\ heap = <<>>
    /\ req_body = JNull
    /\ section_order = JNull
    /\ section_visibility = JNull
    /\ is_anonymized = FALSE
    /\ context = NoOutcome
    /\ AdapterIdle
    /\ HandlerIdle
    /\ StorageIdle

\* the call up to the loop: lines 59-92
DocxToPdf ==
    /\ pc = "start"
    /\ file' = CheckFile(file)[1]
    /\ pdf_response' = CheckFile(file)[2]
    /\ pc' = IF Raised(CheckFile(file)[2]) THEN "done" ELSE "loop"
    /\ retry_count' = 0
    /\ last_error' = JNull
    /\ UNCHANGED <<storageVars, request, validationVars, contextVars,
                   adapterVars, handlerVars, max_retries, posts>>

\* one pass of the loop: a POST that reads the file or not before it ends,
\* and the handling of how it ends (lines 95-132)
Post ==
    /\ pc = "loop"
    /\ retry_count < max_retries
    /\ \E outcome \in PostOutcomes, consumed \in BOOLEAN :
          LET raised == IF outcome[1] = "response" THEN StatusError(outcome[2])
                        ELSE outcome IN
          /\ posts' = Append(posts, [position |-> file.position,
                                     closed |-> file.closed,
                                     outcome |-> outcome])
          /\ file' = [file EXCEPT !.position = IF consumed THEN file.size ELSE @]
          /\ IF outcome = <<"response", "200">>
             THEN /\ pdf_response' = Return(outcome)
                  /\ pc' = "finally"
                  /\ UNCHANGED <<retry_count, last_error>>
             ELSE IF Transient(raised)
             THEN /\ last_error' = Remember(last_error, raised)
                  /\ retry_count' = retry_count + 1
                  /\ IF retry_count + 1 < max_retries
                     THEN IF file.closed
                          THEN /\ pdf_response' =
                                     Raise(<<"ValueError",
                                             "I/O operation on closed file">>)
                               /\ pc' = "finally"
                          ELSE /\ pdf_response' = pdf_response
                               /\ pc' = "loop"
                     ELSE /\ pdf_response' = pdf_response
                          /\ pc' = "finally"
             ELSE /\ pdf_response' = Raise(raised)
                  /\ pc' = "finally"
                  /\ UNCHANGED <<retry_count, last_error>>
    /\ UNCHANGED <<storageVars, request, validationVars, contextVars,
                   adapterVars, handlerVars, max_retries>>

\* `while retry_count < max_retries` is false
ExitLoop ==
    /\ pc = "loop"
    /\ ~(retry_count < max_retries)
    /\ pc' = "finally"
    /\ UNCHANGED <<storageVars, request, validationVars, contextVars,
                   adapterVars, handlerVars, clientVars>>

\* the finally clause, and the raise after the loop (lines 133-142)
Finally ==
    /\ pc = "finally"
    /\ file' = [file EXCEPT !.closed = TRUE]
    /\ pdf_response' =
          IF pdf_response[1] # "none" THEN pdf_response
          ELSE IF last_error # JNull THEN Raise(last_error)
          ELSE Raise(<<"Exception", "PDF conversion failed after all retries">>)
    /\ pc' = "done"
    /\ UNCHANGED <<storageVars, request, validationVars, contextVars,
                   adapterVars, handlerVars, max_retries, retry_count,
                   last_error, posts>>

NextClient == DocxToPdf \/ Post \/ ExitLoop \/ Finally

SpecClient == InitClient /\ [][NextClient]_vars

-----------------------------------------------------------------------------
(* Claims about docx_to_pdf (specification SpecClient)                     *)

\* the attempt ended in a Timeout or a ConnectionError
EndedTransient(post) == post.outcome[1] \in {"Timeout", "ConnectionError"}
Answered200(post) == post.outcome = <<"response", "200">>

\* C23: one call of docx_to_pdf makes at most max_retries POST attempts; a
\* further attempt is made only after an attempt ended in a Timeout or
\* ConnectionError (never after an HTTP response, whether 200 or not), and
\* the call returns the response of the first attempt answered with status
\* 200, so a single transient failure followed by success takes exactly two
\* attempts.
C23_RetriesOnlyAfterTransient ==
    /\ Len(posts) <= max_retries
    /\ \A i \in 2..Len(posts) : EndedTransient(posts[i - 1])
    /\ pc = "done" =>
          /\ \A i \in 1..Len(posts) :
                Answered200(posts[i]) =>
                    /\ pdf_response = Return(posts[i].outcome)
                    /\ i = Len(posts)
          /\ Returned(pdf_response) =>
                Len(posts) > 0 /\ Answered200(posts[Len(posts)])
          /\ (/\ Len(posts) >= 2
              /\ EndedTransient(posts[1])
              /\ Answered200(posts[2])) => Len(posts) = 2

\* a call has returned the answer of its second attempt, the first having
\* timed out
C23_Witness ==
    /\ pc = "done"
    /\ Len(posts) = 2
    /\ posts[1].outcome = <<"Timeout", "Request timed out">>
    /\ posts[2].outcome = <<"response", "200">>
    /\ max_retries = 3
    /\ pdf_response = Return(<<"response", "200">>)

\* C24: when every attempt of a docx_to_pdf call fails with a Timeout or
\* ConnectionError, exactly max_retries attempts are made (3 by default) and
\* the call then raises the error of the last attempt, with its original
\* type and message.
C24_LastErrorRaised ==
    (/\ pc = "done"
     /\ Len(posts) > 0
     /\ \A i \in 1..Len(posts) : EndedTransient(posts[i]))
    => /\ Len(posts) = max_retries
       /\ pdf_response = Raise(posts[Len(posts)].outcome)

\* a call with the default max_retries has made three attempts, the first two
\* timed out and the last refused, and has raised the ConnectionError
C24_Witness ==
    /\ pc = "done"
    /\ max_retries = 3
    /\ Len(posts) = 3
    /\ posts[1].outcome = <<"Timeout", "Request timed out">>
    /\ posts[2].outcome = <<"Timeout", "Request timed out">>
    /\ posts[3].outcome = <<"ConnectionError", "Connection error">>
    /\ pdf_response = Raise(<<"ConnectionError", "Connection error">>)

\* C25: once a docx_to_pdf call has finished, whether it returned a response
\* or raised, the file object that was passed to it is closed.
C25_FileClosedWhenFinished ==
    (pc = "done" /\ file.given) => file.closed


\* C29: every POST attempt made by docx_to_pdf, including each retry after a
\* Timeout or ConnectionError, sends the file from its first byte: the file's
\* read position is 0 when each attempt starts even if the previous attempt
\* consumed the file, and a retry never operates on a file that has been
\* closed.
C29_EveryAttemptFromFirstByte ==
    \A i \in 1..Len(posts) : posts[i].position = 0 /\ ~posts[i].closed


\* the section identifiers: the fields SectionVisibility declares
SectionIdentifiers == {SectionVisibility[i][1] : i \in 1..Len(SectionVisibility)}

\* generate_cv has handed a context to the renderer for a request that
\* carries a sectionVisibility mapping
VisibilityHanded ==
    /\ pc = "generate_cv"
    /\ Returned(template_context)
    /\ IsDict(http.json)
    /\ HasKey(http.json[2], "sectionVisibility")
    /\ IsDict(Get(http.json[2], "sectionVisibility"))

RequestVisibility == Get(http.json[2], "sectionVisibility")[2]
ContextVisibility == Get(template_context[2][2], "sectionVisibility")

\* the context gives section k the value the request gives it
SameVisibility(k) ==
    /\ HasKey(template_context[2][2], "sectionVisibility")
    /\ IsDict(ContextVisibility)
    /\ HasKey(ContextVisibility[2], k)
    /\ Get(ContextVisibility[2], k) = Get(RequestVisibility, k)

\* C26 as stated: for every generate_cv request that passes validation, the
\* sectionVisibility in the context handed to the template renderer gives,
\* for each section identifier that the request's sectionVisibility sets,
\* the same boolean value as the request.
C26_AsStated ==
    VisibilityHanded =>
        \A k \in SectionIdentifiers :
            (HasKey(RequestVisibility, k) /\ IsBool(Get(RequestVisibility, k)))
            => SameVisibility(k)

\* the request sets section k once: not also under a key that is renamed to
\* k, and not in a section_visibility mapping of its own
SetOnce(k) ==
    /\ ~HasKey(http.json[2], "section_visibility")
    /\ \A i \in 1..Len(key_mapping) :
          key_mapping[i][2] = k => ~HasKey(RequestVisibility, key_mapping[i][1])

\* C26, amended: the context gives each declared section identifier that the
\* request's sectionVisibility sets to a boolean or to null, and sets once,
\* the value of the request.
C26_VisibilityOfSectionsSetOnce ==
    VisibilityHanded =>
        \A k \in SectionIdentifiers :
            (/\ HasKey(RequestVisibility, k)
             /\ IsBool(Get(RequestVisibility, k))
                   \/ Get(RequestVisibility, k) = JNull
             /\ SetOnce(k))
            => SameVisibility(k)

\* the renderer was handed education: false and profile_statement: true for
\* a request that set just that, and the document was uploaded
C26_Witness ==
    /\ VisibilityHanded
    /\ RequestVisibility = << <<"education", JBool(FALSE)>>,
                              <<"profile_statement", JBool(TRUE)>> >>
    /\ SetOnce("education") /\ SetOnce("profile_statement")
    /\ SameVisibility("education") /\ SameVisibility("profile_statement")
    /\ Get(ContextVisibility[2], "skills") = JBool(TRUE)
    /\ blob # NoOutcome


-----------------------------------------------------------------------------
(* Several requests served by generate_cv.  The handler shares nothing     *)
(* with other requests but the clock and the bucket, so a request is one   *)
(* step; requests served at the same second are the concurrent ones        *)

MaxRequests == 2
MaxClock == 1

sJane == <<"J", "a">>

\* valid requests for two candidates whose names differ after the initial
StorageBodies ==
    {JDict(<< <<"data", JDict(<< <<"firstName", JStr(first)>>,
                                 <<"surname", JStr(sDoe)>> >>)>> >> \o b) :
        first \in {sJohn, sJane},
        b \in DictsOver(<< <<"outputFormat", {JStr(sPdf)}>>,
                           <<"isAnonymized", {JBool(TRUE)}>> >>)}

InitStorage ==
    /\ clock = 0
    /\ served = <<>>
    /\ pc = "start"
    /\ request = JNull
    /\ result = NoOutcome
    /\ transformed = NoOutcome
    /\ transformed2 = NoOutcome
    /\ heap = <<>>
    /\ req_body = JNull
    /\ section_order = JNull
    /\ section_visibility = JNull
    /\ is_anonymized = FALSE
    /\ context = NoOutcome
    /\ AdapterIdle
    /\ HandlerIdle
    /\ ClientIdle

\* generate_cv serves one more request, at the present second
Serve ==
    /\ Len(served) < MaxRequests
    /\ \E body \in StorageBodies :
       \E run \in {generate_cv([method |-> "POST",
                                  authorization |->
                                      JList(<<JStr(sBearer), JStr(sGoodToken)>>),
                                  json |-> body],
                                 [REQUIRE_AUTHENTICATION |-> JNull,
                                  TESTING |-> JNull],
                                 TRUE, "ok", clock)} :
          served' = Append(served, [json |-> body,
                                    time |-> clock,
                                    response |-> run.response,
                                    template_context |-> run.template_context,
                                    blob |-> run.blob])
    /\ UNCHANGED <<clientVars, request, pc, validationVars, contextVars,
                   adapterVars, handlerVars, clock>>

\* a second goes by
Tick ==
    /\ clock < MaxClock
    /\ clock' = clock + 1
    /\ UNCHANGED <<clientVars, request, pc, validationVars, contextVars,
                   adapterVars, handlerVars, served>>

NextStorage == Serve \/ Tick

SpecStorage == InitStorage /\ [][NextStorage]_vars

-----------------------------------------------------------------------------
(* Claims about several requests (specification SpecStorage)               *)

\* the first character of a name (a name of the requests is a string)
FirstCharacter(name) ==
    IF Len(name[2]) = 0 THEN name ELSE JStr(<<name[2][1]>>)

\* the request with the candidate's names cut to their first characters
NamesCut(body) ==
    LET data == Get(body[2], "data")[2] IN
    JDict(DictSet(body[2], "data",
        JDict(DictSet(DictSet(data, "firstName",
                              FirstCharacter(Get(data, "firstName"))),
                      "surname", FirstCharacter(Get(data, "surname"))))))

Anonymized(body) ==
    HasKey(body[2], "isAnonymized") /\ Get(body[2], "isAnonymized") = JBool(TRUE)

\* C27: when a generate_cv request has isAnonymized true, everything the
\* request produces (the context given to the template, the name of the
\* stored blob and the returned download URL, which is the signed URL of that
\* blob) is independent of the candidate's first name and surname beyond
\* their first characters: two requests that differ only in the remaining
\* characters of those names, handled at the same time, produce the same
\* outputs.
C27_AnonymizedOutputsHideNames ==
    \A i, j \in 1..Len(served) :
        (/\ Anonymized(served[i].json) /\ Anonymized(served[j].json)
         /\ NamesCut(served[i].json) = NamesCut(served[j].json)
         /\ served[i].time = served[j].time)
        => /\ served[i].template_context = served[j].template_context
           /\ served[i].response = served[j].response
           /\ served[i].blob = served[j].blob

\* C28: concurrent or successive generate_cv requests never write to the same
\* storage path: every successful request uploads its document under a blob
\* name that no other request uses, so no request's document is overwritten
\* by another and no returned download URL resolves to another request's
\* document.
C28_BlobNamesNeverShared ==
    \A i, j \in 1..Len(served) :
        (i # j /\ served[i].blob # NoOutcome /\ served[j].blob # NoOutcome)
        => served[i].blob # served[j].blob


-----------------------------------------------------------------------------
(* Claims about the adapter's output under validation (SpecAdapter)        *)

\* every value of the mapping is a string (a boolean under is_current)
FieldsAreStrings(d) ==
    /\ IsDict(d)
    /\ \A i \in 1..Len(d[2]) :
          IF d[2][i][1] = "is_current" THEN IsBool(d[2][i][2])
          ELSE IsStr(d[2][i][2])

\* a list of strings
StringList(v) == IsList(v) /\ \A i \in 1..Len(v[2]) : IsStr(v[2][i])

\* a parser record whose present fields are strings (booleans for
\* is_current) and whose list subsections contain only mappings
StringRecord(r) ==
    /\ IsDict(r)
    /\ HasKey(r[2], "contact_info") => FieldsAreStrings(Get(r[2], "contact_info"))
    /\ HasKey(r[2], "personal_statement")
          => IsStr(Get(r[2], "personal_statement"))
    /\ \A k \in {"links", "skills"} :
          HasKey(r[2], k) => StringList(Get(r[2], k))
    /\ \A k \in {"experience", "education", "certifications", "languages",
                 "achievements"} :
          HasKey(r[2], k) =>
              /\ IsList(Get(r[2], k))
              /\ \A i \in 1..Len(Get(r[2], k)[2]) :
                    FieldsAreStrings(Get(r[2], k)[2][i])

\* requests of parse_and_generate_cv with valid options of their own
OptionRequests ==
    {JDict(<< <<"fileContent", JStr(sAcme)>>, <<"fileName", JStr(sAcme)>> >>
           \o b) : b \in
        DictsOver(<< <<"outputFormat", {JStr(sPdf), JStr(sDoc)}>>,
                     <<"sectionOrder", {JList(<<JStr(sAcme)>>)}>> >>)}

\* the output of parser_to_generator, completed with every valid output
\* format, is accepted by validate_request, and parse_and_generate_cv does not
\* answer 'Converted CV data validation failed' to a request with valid
\* options whose file the parser read as that record
AcceptedOnceConverted ==
    /\ Returned(converted)
    /\ \A format \in OutputFormats :
          validate_request(WithOptions(converted[2],
              JDict(<< <<"outputFormat", JStr(format)>> >>))) = Return(TRUE)
    /\ \A body \in OptionRequests, render_ok \in BOOLEAN :
          parse_and_generate_cv(
              [method |-> "POST",
               authorization |-> JList(<<JStr(sBearer), JStr(sGoodToken)>>),
               json |-> body],
              [REQUIRE_AUTHENTICATION |-> JNull, TESTING |-> JNull],
              Return(record), render_ok, "ok", 0).response
          # Answer(400, "Converted CV data validation failed")

\* C30 as stated: for every parser record whose present fields are strings
\* (booleans for is_current) and whose list subsections contain only
\* mappings, the output of parser_to_generator, completed with a valid output
\* format, is accepted by validate_request, also when names or list-item
\* fields are missing from the parser record; parse_and_generate_cv therefore
\* never answers 'Converted CV data validation failed' for such a record when
\* the request's own options are valid.
C30_AsStated ==
    (pc = "to_generator" /\ StringRecord(record)) => AcceptedOnceConverted

\* C30, amended: the same for every such parser record that is not empty.
C30_NonEmptyRecordAccepted ==
    (pc = "to_generator" /\ StringRecord(record) /\ record # JDict(<<>>))
    => AcceptedOnceConverted

\* parser_to_generator has converted a record whose one experience item has
\* no field at all, and the result is accepted
C30_Witness ==
    /\ pc = "to_generator"
    /\ StringRecord(record)
    /\ HasKey(record[2], "experience")
    /\ Get(record[2], "experience") = JList(<<JDict(<<>>)>>)
    /\ AcceptedOnceConverted

====
